---- MODULE Spec2Model ----
(***************************************************************************)
(* Back-testing core of the trading system: MarketDataGateway (gateway.py), *)
(* OrderManager (order_manager.py), MatchingEngine (matching_engine.py) and *)
(* Backtester (Strategy_Backtesting.py).                                    *)
(*                                                                          *)
(* Prices, cash and capital are integers (currency units), quantities are   *)
(* integers, the wall clock (time.time()) counts whole seconds.  A bar is   *)
(* represented by its Close, the only column Backtester.run reads.          *)
(***************************************************************************)
EXTENDS Integers, Sequences, FiniteSets, TLC

----------------------------------------------------------------------------
(* Bounds of the model *)

\* number of bars in the feed handed to the Backtester
MaxBars == 3
\* the wall clock stops advancing here
MaxTime == 121
\* OrderManager(capital=...) of the modelled configuration
Capital == 2000
\* OrderManager(max_position=...) of the modelled configuration
MaxPosition == 10
\* OrderManager(max_orders_per_min=...) of the modelled configuration
MaxOrdersPerMin == 2
\* MovingAverageStrategy: the largest long_window
MaxWindow == 2
\* module random: the values a seeded generator is followed for
StreamLen == 4
\* the orders given to each MatchingEngine
NOrders == 2
\* the rows of a close series handed to a strategy
MaxSeries == 5
\* the largest long_window of a strategy run on a series
MaxLookback == 3
\* the generator objects stream() is asked for
MaxGens == 2
\* the times a gateway is rewound
MaxRewinds == 2

\* closes a bar can carry
Prices == {100, 110}
\* seconds that can pass between two operations
ClockSteps == {0, 59, 60}
\* seconds that can pass between the two reads of time.time() in validate
ReadGap == {0, 1}
\* orders handed to OrderManager.validate when it is driven directly
OrderSides == {"buy", "sell"}
OrderPrices == {100, 200}
OrderQtys == {5, 10}
\* strategy decisions read by Backtester.run: 1 = buy, -1 = sell, 0 = hold
Signals == {-1, 0, 1}
\* seconds that can pass between two iterations of the loop of Backtester.run
TickClockSteps == {0, 60}
\* seconds between validate's two clock reads inside the loop of Backtester.run
TickReadGap == {0}
\* draws of random.random(), in hundredths
RDraws == {5, 80, 95}
\* draws of random.uniform(0.1, 0.9), in hundredths
UDraws == {50}
\* values of random.random() in a seeded stream, in hundredths
StreamDraws == {5, 70, 85, 90}
\* closes of a series handed to a strategy
SeriesPrices == {100, 110, 130}
\* quantities of the orders given to a MatchingEngine
SimQtys == {5, 10}
MaxRows == 2
MaxInventory == 3
\* tick sizes in cents, soft limits in shares, volatilities in thousandths
TickSizes == {-1, 0, 1}
SoftLimits == {0, 2}
VolLevels == {0, 100, 101}
\* bits of a float's mantissa (53 in numpy's float64), entries of an equity
\* curve given to a PerformanceAnalyzer, and the values they are taken from
MantissaBits == 4
MaxCurve == 4
EquityValues == {8, 15, 17, 21, 26, 28, 32, 52}
\* lines of the log file, and the clock's last reading while logging
MaxLines == 3
MaxLogTime == 2
\* event types Backtester logs, and the data of an event: a dictionary that
\* json can serialise or one that holds a value it cannot
EventTypes == {"rejected", "submitted", "execution"}
LogData == [order_id : {0, 1}, serialisable : BOOLEAN]
\* the crypto trader: calendar days, the clock's last reading, the steps of
\* the clock between two quotes, the account equities and the position
\* quantities the broker reports, the symbols quotes arrive for, the direction
\* a quote's imbalance asks for ("none": compute_signals returned None), and
\* what the exposure checks leave to trade: a limit that is reached, or the
\* notional of the trade
MaxDays == 2
MaxCryptoTime == 10
MaxCycles == 2
CryptoClockSteps == {0, 5}
EquityReadings == {900, 1000}
PositionReadings == {-1, 0, 1}
QuoteSymbols == {"BTC/USD", "ETH/USD", "SOL/USD"}
Directions == {"none", "flat", "long", "short"}
Budgets == {[limit |-> "total", notional |-> 0], [limit |-> "symbol", notional |-> 0],
            [limit |-> "", notional |-> 0], [limit |-> "", notional |-> 5],
            [limit |-> "", notional |-> 20]}

----------------------------------------------------------------------------
(* Program constants *)

\* Backtester.__init__: self.cash = 100000
InitialCash == 100000
\* Backtester.run: qty=10
OrderQty == 10
\* OrderManager._check_order_rate: now - t < 60
RateWindow == 60
\* MatchingEngine.simulate_execution: r < 0.70, r < 0.90 (hundredths)
FullFillBelow == 70
PartialFillBelow == 90
\* Backtester.__init__: self.last_price = None
None == -1
VolHaltDefault == 100
COOLDOWN_SECONDS == 5
DAILY_LOSS_LIMIT == 100
MIN_ORDER_NOTIONAL == 10
max_position_risk == 100

----------------------------------------------------------------------------
VARIABLES
    data_gateway,    \* MarketDataGateway: data, length, pointer
    order_manager,   \* OrderManager: capital, max_position, max_orders_per_min,
                     \*               order_timestamps, current_position
    order_book,      \* OrderBook: the orders added by add_order
    bt,              \* Backtester: trades, equity_curve, position, cash,
                     \*             portfolio_value, last_price, market_df
    pc,              \* where Backtester.run is: "loop" or "returned"
    now,             \* the wall clock, time.time()
    accepted_ts,     \* history: every timestamp validate ever recorded
    strategy,        \* the strategy object: its parameters and inventory view
    rng,             \* the generator of module random: the values it yields
                     \*   from its seed on, and how many have been drawn
    sim,             \* two MatchingEngine instances given the same orders
    gens,            \* the generator objects returned by stream()
    feed,            \* history: the rows of the CSV file as read, the rows
                     \*   delivered since the latest rewind, the rewinds
    frame,           \* the data frame handed to strategy.run and its result
    pa,              \* PerformanceAnalyzer: equity_curve, trades
    logger,          \* OrderLoggingGateway and the file it writes
    trader,          \* alpaca_crypto_after_hours: state, the day, the broker
    mm,              \* AlpacaMarketMaker and the broker's working orders
    last             \* what the latest operation did and returned

vars == <<data_gateway, order_manager, order_book, bt, pc, now, accepted_ts,
         strategy, rng, sim, gens, feed, frame, pa, logger, trader, mm, last>>

----------------------------------------------------------------------------
(* order_book.Order *)

Order(order_id, side, price, qty) ==
    [order_id |-> order_id, side |-> side, price |-> price, qty |-> qty]

NoOrder == Order(None, "none", 0, 0)

----------------------------------------------------------------------------
(* OrderManager *)

OrderManager(capital, max_position, max_orders_per_min) ==
    [capital            |-> capital,
     max_position       |-> max_position,
     max_orders_per_min |-> max_orders_per_min,
     order_timestamps   |-> << >>,
     current_position   |-> 0]

\* Mutant: the capital check lets every order through.
_check_capital_absent(om, order) == TRUE

\* Mutant: a buy must leave capital over (strict comparison).
_check_capital_strict(om, order) ==
    IF order.side = "buy"
    THEN order.price * order.qty < om.capital
    ELSE TRUE

_check_capital(om, order) ==
    IF order.side = "buy"
    THEN order.price * order.qty <= om.capital
    ELSE TRUE

\* Mutant: tests the position before the order instead of the resulting one.
_check_position_limit_before(om, order) ==
    IF order.side = "buy"
    THEN om.current_position <= om.max_position
    ELSE om.current_position >= -om.max_position

_check_position_limit(om, order) ==
    IF order.side = "buy"
    THEN om.current_position + order.qty <= om.max_position
    ELSE om.current_position - order.qty >= -om.max_position

\* [t for t in self.order_timestamps if now - t < 60]
\* Mutant: keeps a timestamp that is exactly 60 seconds old.
RecentTimestamps_inclusive(ts, t_now) ==
    SelectSeq(ts, LAMBDA t : t_now - t <= RateWindow)

RecentTimestamps(ts, t_now) ==
    SelectSeq(ts, LAMBDA t : t_now - t < RateWindow)

\* Mutant: lets one order too many through (<= instead of <).
_check_order_rate_offbyone(om, t_now) ==
    LET kept == SelectSeq(om.order_timestamps, LAMBDA t : t_now - t < RateWindow)
    IN  [om |-> [om EXCEPT !.order_timestamps = kept],
         ok |-> Len(kept) <= om.max_orders_per_min]

\* Mutant: counts the attempt itself, recording it before the count is tested.
_check_order_rate_stamping(om, t_now) ==
    LET kept == Append(SelectSeq(om.order_timestamps,
                                 LAMBDA t : t_now - t < RateWindow), t_now)
    IN  [om |-> [om EXCEPT !.order_timestamps = kept],
         ok |-> Len(kept) <= om.max_orders_per_min]

\* Reads the clock (t_now), replaces order_timestamps by the recent ones and
\* answers whether another order fits: the manager after the call and the answer.
_check_order_rate(om, t_now) ==
    LET kept == RecentTimestamps(om.order_timestamps, t_now)
    IN  [om |-> [om EXCEPT !.order_timestamps = kept],
         ok |-> Len(kept) < om.max_orders_per_min]

\* Mutant: an approved sell gives its notional back to the capital.
ApproveOrder_refunds_sells(om, order, t_rec) ==
    LET stamped == [om EXCEPT !.order_timestamps = Append(@, t_rec)]
    IN  IF order.side = "buy"
        THEN [stamped EXCEPT !.current_position = @ + order.qty,
                             !.capital = @ - order.price * order.qty]
        ELSE [stamped EXCEPT !.current_position = @ - order.qty,
                             !.capital = @ + order.price * order.qty]

\* Mutant: an approved sell is not taken off the tracked position.
ApproveOrder_ignores_sells(om, order, t_rec) ==
    LET stamped == [om EXCEPT !.order_timestamps = Append(@, t_rec)]
    IN  IF order.side = "buy"
        THEN [stamped EXCEPT !.current_position = @ + order.qty,
                             !.capital = @ - order.price * order.qty]
        ELSE stamped

\* validate's tail, after the three checks passed: record the approved order
\* at clock reading t_rec, then update position and capital.
ApproveOrder(om, order, t_rec) ==
    LET stamped == [om EXCEPT !.order_timestamps = Append(@, t_rec)]
    IN  IF order.side = "buy"
        THEN [stamped EXCEPT !.current_position = @ + order.qty,
                             !.capital = @ - order.price * order.qty]
        ELSE [stamped EXCEPT !.current_position = @ - order.qty]

\* Mutant: the position check runs before the capital check.
validate_position_first(om, order, t_chk, t_rec) ==
    LET pos  == IF order.side = "buy"
                THEN om.current_position + order.qty
                ELSE om.current_position - order.qty
        kept == SelectSeq(om.order_timestamps, LAMBDA t : t_chk - t < RateWindow)
        pruned == [om EXCEPT !.order_timestamps = kept]
    IN  IF pos > om.max_position \/ pos < -om.max_position
        THEN [ok |-> FALSE, msg |-> "Position limit exceeded", om |-> om,
              evaluated |-> <<"position">>]
        ELSE IF order.side = "buy" /\ order.price * order.qty > om.capital
        THEN [ok |-> FALSE, msg |-> "Not enough capital", om |-> om,
              evaluated |-> <<"position", "capital">>]
        ELSE IF ~(Len(kept) < om.max_orders_per_min)
        THEN [ok |-> FALSE, msg |-> "Order rate limit exceeded", om |-> pruned,
              evaluated |-> <<"position", "capital", "rate">>]
        ELSE [ok |-> TRUE, msg |-> "Order approved",
              om |-> [pruned EXCEPT
                        !.order_timestamps = Append(kept, t_rec),
                        !.current_position = pos,
                        !.capital = IF order.side = "buy"
                                    THEN @ - order.price * order.qty ELSE @],
              evaluated |-> <<"position", "capital", "rate">>]

\* Mutant: the rate rejection returns the position check's message.
validate_wrong_reason(om, order, t_chk, t_rec) ==
    LET pos  == IF order.side = "buy"
                THEN om.current_position + order.qty
                ELSE om.current_position - order.qty
        kept == SelectSeq(om.order_timestamps, LAMBDA t : t_chk - t < RateWindow)
        pruned == [om EXCEPT !.order_timestamps = kept]
    IN  IF order.side = "buy" /\ order.price * order.qty > om.capital
        THEN [ok |-> FALSE, msg |-> "Not enough capital", om |-> om,
              evaluated |-> <<"capital">>]
        ELSE IF pos > om.max_position \/ pos < -om.max_position
        THEN [ok |-> FALSE, msg |-> "Position limit exceeded", om |-> om,
              evaluated |-> <<"capital", "position">>]
        ELSE IF ~(Len(kept) < om.max_orders_per_min)
        THEN [ok |-> FALSE, msg |-> "Position limit exceeded", om |-> pruned,
              evaluated |-> <<"capital", "position", "rate">>]
        ELSE [ok |-> TRUE, msg |-> "Order approved",
              om |-> [pruned EXCEPT
                        !.order_timestamps = Append(kept, t_rec),
                        !.current_position = pos,
                        !.capital = IF order.side = "buy"
                                    THEN @ - order.price * order.qty ELSE @],
              evaluated |-> <<"capital", "position", "rate">>]

\* OrderManager.validate(order) called when the clock reads t_chk in
\* _check_order_rate and t_rec >= t_chk when the approved order is recorded.
\* Result: the returned pair (ok, msg), the manager after the call, the checks
\* that were evaluated, in order.
validate(om, order, t_chk, t_rec) ==
    IF ~_check_capital(om, order)
    THEN [ok |-> FALSE, msg |-> "Not enough capital", om |-> om,
          evaluated |-> <<"capital">>]
    ELSE IF ~_check_position_limit(om, order)
    THEN [ok |-> FALSE, msg |-> "Position limit exceeded", om |-> om,
          evaluated |-> <<"capital", "position">>]
    ELSE LET rate == _check_order_rate(om, t_chk)
         IN  IF ~rate.ok
             THEN [ok |-> FALSE, msg |-> "Order rate limit exceeded", om |-> rate.om,
                   evaluated |-> <<"capital", "position", "rate">>]
             ELSE [ok |-> TRUE, msg |-> "Order approved",
                   om |-> ApproveOrder(rate.om, order, t_rec),
                   evaluated |-> <<"capital", "position", "rate">>]

----------------------------------------------------------------------------
(* MatchingEngine *)

\* Mutant: a draw of exactly 0.70 fills in full, one of exactly 0.90 in part.
simulate_execution_inclusive(order, r, u) ==
    IF r <= FullFillBelow
    THEN [order_id |-> order.order_id, status |-> "filled", filled_qty |-> order.qty]
    ELSE IF r <= PartialFillBelow
    THEN [order_id |-> order.order_id, status |-> "partial",
          filled_qty |-> (order.qty * u) \div 100]
    ELSE [order_id |-> order.order_id, status |-> "cancelled", filled_qty |-> 0]

\* r: the draw of random.random(), u: the draw of random.uniform(0.1, 0.9),
\* both in hundredths; int() truncates.
simulate_execution(order, r, u) ==
    IF r < FullFillBelow
    THEN [order_id |-> order.order_id, status |-> "filled", filled_qty |-> order.qty]
    ELSE IF r < PartialFillBelow
    THEN [order_id |-> order.order_id, status |-> "partial",
          filled_qty |-> (order.qty * u) \div 100]
    ELSE [order_id |-> order.order_id, status |-> "cancelled", filled_qty |-> 0]

NoResult == [order_id |-> None, status |-> "none", filled_qty |-> 0]

\* The generator of module random, shared by the whole process: stream is the
\* sequence random.random() yields after random.seed(s), in hundredths, index
\* the number of values drawn since.
Random(stream) == [stream |-> stream, index |-> 0]

\* random.seed(s) with the seed used before: the same values come again.
seed(g) == [g EXCEPT !.index = 0]

\* random.random(): the value drawn and the generator after the draw.
random(g) == [value |-> g.stream[g.index + 1],
              g     |-> [g EXCEPT !.index = @ + 1]]

\* random.uniform(a, b) is a + (b - a) * random(): one more draw x, here
\* 0.1 + 0.8 * x in hundredths (the streams hold multiples of 0.05, for which
\* this is a whole number of hundredths).
uniform_01_09(g) == [value |-> 10 + (80 * random(g).value) \div 100,
                     g     |-> random(g).g]

\* simulate_execution drawing from the generator of module random: the result
\* and the generator after the call.
simulate_execution_random(order, g) ==
    LET r == random(g)
        u == uniform_01_09(r.g)
    IN  IF r.value >= FullFillBelow /\ r.value < PartialFillBelow
        THEN [result |-> simulate_execution(order, r.value, u.value), g |-> u.g]
        ELSE [result |-> simulate_execution(order, r.value, 0), g |-> r.g]

\* The draws one call of simulate_execution needs.
DrawsNeeded(g) ==
    IF g.index + 1 <= Len(g.stream)
          /\ g.stream[g.index + 1] >= FullFillBelow
          /\ g.stream[g.index + 1] < PartialFillBelow
    THEN 2 ELSE 1

\* Two engines and the orders each is given; turn is the engine at work.
Simulators(orders) == [orders |-> orders, fills |-> << << >>, << >> >>, turn |-> 1]

NoSim == Simulators(<< >>)

EngineIdle == rng = Random(<< >>) /\ sim = NoSim

\* No generator object, nothing read.
NoFeed == [csv |-> << >>, rows |-> << >>, rewinds |-> 0, takers |-> << >>]

StreamsIdle == gens = << >> /\ feed = NoFeed

\* No data frame.
NoFrame == [Close |-> << >>]

\* No PerformanceAnalyzer has been constructed.
NoAnalyzer == [equity_curve |-> << >>, trades |-> << >>]
AnalyzerIdle == pa = NoAnalyzer

\* The event of a log call that is not under way.
NoEvent == [event |-> "", timestamp |-> 0,
            data |-> [order_id |-> 0, serialisable |-> TRUE]]

\* OrderLoggingGateway.__init__, with the file at file_path: its lines, the
\* handles open on it, and the event of the log call under way.
OrderLoggingGateway == [file |-> << >>, handles |-> 0, event |-> NoEvent]

\* No OrderLoggingGateway has been constructed.
NoLogger == OrderLoggingGateway
LoggerIdle == logger = NoLogger

\* alpaca_crypto_after_hours.SYMBOLS
SYMBOLS == <<"BTC/USD", "ETH/USD">>

\* SymbolState()
SymbolState == [position_side |-> "flat", last_trade_time |-> 0]

\* state = GlobalState(symbols={s: SymbolState() for s in SYMBOLS}); dates are
\* day numbers and the empty last_reset_date is 0.
GlobalState ==
    [symbols        |-> [sym \in {SYMBOLS[i] : i \in DOMAIN SYMBOLS} |-> SymbolState],
     trading_halted |-> FALSE,
     start_equity   |-> 0,
     last_reset_date |-> 0]

\* The crypto trader's module has not been loaded.
\* submitted is the broker's side of it: for every symbol the side of the
\* latest order that trading_client.submit_order accepted, "none" before any.
NoTrader ==
    [state |-> GlobalState, today |-> 0, flattening |-> << >>,
     submitted |-> [sym \in {SYMBOLS[i] : i \in DOMAIN SYMBOLS} |-> "none"]]
TraderIdle == trader = NoTrader

\* AlpacaMarketMaker.__init__, with the broker's side: the symbol's working
\* orders and the polling cycles run so far.
AlpacaMarketMaker ==
    [position |-> 0, open_bid_id |-> None, open_ask_id |-> None,
     working |-> {}, cycle |-> 0]

\* No AlpacaMarketMaker is running.
MarketMakerIdle == mm = AlpacaMarketMaker

----------------------------------------------------------------------------
(* MarketDataGateway *)

MarketDataGateway(data) == [data |-> data, length |-> Len(data), pointer |-> 0]

\* Mutant: stops one row before the end of the data.
has_next_offbyone(gw) == gw.pointer < gw.length - 1

has_next(gw) == gw.pointer < gw.length

\* A row of the CSV file: its Datetime (an integer instant) and its Close.
Bar(t) == [Datetime |-> t, Close |-> 100 + 10 * (t % 2)]

NoRow == [Datetime |-> 0, Close |-> 0]

\* The files of n rows with the timestamps 1..n, in any order of rows.
CsvFiles(n) ==
    {[i \in 1..n |-> Bar(p[i])] : p \in Permutations(1..n)}

\* Mutant: the rows stay in the order of the file.
sort_values_unsorted(rows) == rows

\* DataFrame.sort_values("Datetime"): the rows by increasing Datetime
\* (timestamps are distinct).
sort_values(rows) ==
    CHOOSE s \in {[i \in 1..Len(rows) |-> rows[p[i]]] : p \in Permutations(1..Len(rows))} :
        \A i, j \in 1..Len(rows) : i < j => s[i].Datetime <= s[j].Datetime

\* MarketDataGateway.__init__ on a file: read_csv, then sort_values.
MarketDataGatewayFromCsv(rows) == MarketDataGateway(sort_values(rows))

\* __next__: the gateway after the call, and the row returned or the
\* StopIteration raised.
__next__(gw) ==
    IF gw.pointer >= gw.length
    THEN [gw |-> gw, status |-> "StopIteration", row |-> NoRow]
    ELSE [gw     |-> [gw EXCEPT !.pointer = @ + 1],
          status |-> "row",
          row    |-> gw.data[gw.pointer + 1]]

\* get_next: next(self), None in place of StopIteration.
get_next(gw) ==
    LET n == __next__(gw)
    IN  IF n.status = "StopIteration" THEN [n EXCEPT !.status = "None"] ELSE n

\* Mutant: reset leaves the pointer where it is.
reset_noop(gw) == gw

reset(gw) == [gw EXCEPT !.pointer = 0]

__iter__(gw) == [gw EXCEPT !.pointer = 0]

\* stream(delay, reset): the generator object; its body has not run yet.
stream(reset_arg) == [state |-> "created", reset |-> reset_arg]

\* next() on a generator object of stream: the body runs from its start (the
\* reset, if asked for) or from the yield it is suspended at, up to the next
\* yield or to its end.  rewound: the body has called reset.
resume(gen, gw) ==
    IF gen.state = "done"
    THEN [gen |-> gen, gw |-> gw, status |-> "StopIteration", row |-> NoRow,
          rewound |-> FALSE]
    ELSE LET rewinding == gen.state = "created" /\ gen.reset
             g0 == IF rewinding THEN reset(gw) ELSE gw
         IN  IF has_next(g0)
             THEN [gen     |-> [gen EXCEPT !.state = "suspended"],
                   gw      |-> __next__(g0).gw,
                   status  |-> "row",
                   row     |-> __next__(g0).row,
                   rewound |-> rewinding]
             ELSE [gen     |-> [gen EXCEPT !.state = "done"],
                   gw      |-> g0,
                   status  |-> "StopIteration",
                   row     |-> NoRow,
                   rewound |-> rewinding]

----------------------------------------------------------------------------
(* Strategies *)

\* A strategy as Backtester.run sees it: the signals are its outputs, and
\* current_position is the inventory view of a class that keeps one
\* (PennyInPennyOutStrategy.__init__: self.current_position = 0).
Strategy == [current_position |-> 0]

\* PennyInPennyOutStrategy.update_context
update_context(st, position) == [st EXCEPT !.current_position = position]

\* raise ValueError(msg): the constructor yields no object.
ValueError(msg) == [raised |-> "ValueError", msg |-> msg]

\* Mutant: equal windows are accepted.
MovingAverageStrategy_lenient(short_window, long_window) ==
    IF short_window > long_window
    THEN ValueError("short_window must be strictly less than long_window.")
    ELSE [short_window |-> short_window, long_window |-> long_window]

\* MovingAverageStrategy.__init__
MovingAverageStrategy(short_window, long_window) ==
    IF short_window >= long_window
    THEN ValueError("short_window must be strictly less than long_window.")
    ELSE [short_window |-> short_window, long_window |-> long_window]

\* A float of the data frame is an exact fraction num / den; den = 0 is NaN.
NaN == [num |-> 0, den |-> 0]

RECURSIVE SumRange(_, _, _)
SumRange(close, lo, hi) ==
    IF hi < lo THEN 0 ELSE close[hi] + SumRange(close, lo, hi - 1)

\* Series.rolling(window, min_periods=1).mean(): the mean of the last `window`
\* values, of all the values while there are fewer.
rolling_mean(close, window) ==
    [t \in 1..Len(close) |->
        LET lo == IF t - window + 1 < 1 THEN 1 ELSE t - window + 1
        IN  [num |-> SumRange(close, lo, t), den |-> t - lo + 1]]

\* Series.shift(1): the first row has no previous row and holds NaN.
shift(series) ==
    [t \in 1..Len(series) |-> IF t = 1 THEN NaN ELSE series[t - 1]]

\* Comparisons of floats: every comparison with NaN is False.
Lt(a, b) == a.den # 0 /\ b.den # 0 /\ a.num * b.den < b.num * a.den
Le(a, b) == a.den # 0 /\ b.den # 0 /\ a.num * b.den <= b.num * a.den
Gt(a, b) == Lt(b, a)
Ge(a, b) == Le(b, a)

\* MovingAverageStrategy.add_indicators
add_indicators(st, close) ==
    [Close    |-> close,
     MA_short |-> rolling_mean(close, st.short_window),
     MA_long  |-> rolling_mean(close, st.long_window)]

\* Mutant: the comparison at the current row is not strict.
generate_signals_nonstrict(df) ==
    LET buy  == [t \in 1..Len(df.Close) |->
                    /\ Le(shift(df.MA_short)[t], shift(df.MA_long)[t])
                    /\ Ge(df.MA_short[t], df.MA_long[t])]
        sell == [t \in 1..Len(df.Close) |->
                    /\ Ge(shift(df.MA_short)[t], shift(df.MA_long)[t])
                    /\ Le(df.MA_short[t], df.MA_long[t])]
    IN  [Close    |-> df.Close,
         MA_short |-> df.MA_short,
         MA_long  |-> df.MA_long,
         signal   |-> [t \in 1..Len(df.Close) |->
                          IF sell[t] THEN -1 ELSE IF buy[t] THEN 1 ELSE 0]]

\* Mutant: the comparison at the previous row is strict.
generate_signals_strict_prev(df) ==
    LET buy  == [t \in 1..Len(df.Close) |->
                    /\ Lt(shift(df.MA_short)[t], shift(df.MA_long)[t])
                    /\ Gt(df.MA_short[t], df.MA_long[t])]
        sell == [t \in 1..Len(df.Close) |->
                    /\ Gt(shift(df.MA_short)[t], shift(df.MA_long)[t])
                    /\ Lt(df.MA_short[t], df.MA_long[t])]
    IN  [Close    |-> df.Close,
         MA_short |-> df.MA_short,
         MA_long  |-> df.MA_long,
         signal   |-> [t \in 1..Len(df.Close) |->
                          IF sell[t] THEN -1 ELSE IF buy[t] THEN 1 ELSE 0]]

\* MovingAverageStrategy.generate_signals: signal is 0, then 1 on the rows of
\* buy, then -1 on the rows of sell.
generate_signals(df) ==
    LET buy  == [t \in 1..Len(df.Close) |->
                    /\ Le(shift(df.MA_short)[t], shift(df.MA_long)[t])
                    /\ Gt(df.MA_short[t], df.MA_long[t])]
        sell == [t \in 1..Len(df.Close) |->
                    /\ Ge(shift(df.MA_short)[t], shift(df.MA_long)[t])
                    /\ Lt(df.MA_short[t], df.MA_long[t])]
    IN  [Close    |-> df.Close,
         MA_short |-> df.MA_short,
         MA_long  |-> df.MA_long,
         signal   |-> [t \in 1..Len(df.Close) |->
                          IF sell[t] THEN -1 ELSE IF buy[t] THEN 1 ELSE 0]]

\* Strategy.run
run(st, close) == generate_signals(add_indicators(st, close))

\* PennyInPennyOutStrategy.__init__, with the parameters that decide whether
\* an object is made and whether a side quotes.  tick_size is in cents,
\* vol_halt and every volatility in thousandths.
PennyInPennyOutStrategy(tick_size, inventory_soft_limit, vol_halt) ==
    IF tick_size <= 0
    THEN ValueError("tick_size must be positive.")
    ELSE [tick_size            |-> tick_size,
          inventory_soft_limit |-> IF inventory_soft_limit < 1 THEN 1
                                   ELSE inventory_soft_limit,
          vol_halt             |-> vol_halt,
          current_position     |-> 0]

\* PennyInPennyOutStrategy.add_indicators, the volatility column:
\* rolling(vol_lookback, min_periods=2).std().fillna(0.0) has no value on the
\* first row, which fillna turns into 0; on the later rows it is the realized
\* volatility, given here as rolling_std.
PennyInPennyOut_add_indicators(st, close, rolling_std) ==
    [Close      |-> close,
     volatility |-> [t \in 1..Len(close) |->
                        IF t = 1 THEN 0 ELSE rolling_std[t]]]

\* Mutant: a position of exactly 1.5 times the soft limit still quotes.
PennyInPennyOut_generate_signals_inclusive(st, df) ==
    LET high_vol == [t \in 1..Len(df.Close) |-> df.volatility[t] > st.vol_halt]
    IN  [Close      |-> df.Close,
         volatility |-> df.volatility,
         signal     |-> [t \in 1..Len(df.Close) |-> 0],
         bid_active |-> [t \in 1..Len(df.Close) |->
                            /\ ~high_vol[t]
                            /\ 2 * st.current_position <= 3 * st.inventory_soft_limit],
         ask_active |-> [t \in 1..Len(df.Close) |->
                            /\ ~high_vol[t]
                            /\ 2 * st.current_position >= -3 * st.inventory_soft_limit]]

\* PennyInPennyOutStrategy.generate_signals, the columns decided by
\* comparisons: signal, bid_active, ask_active.  The comparison with
\* inventory_soft_limit * 1.5 is taken on both sides times 2.
PennyInPennyOut_generate_signals(st, df) ==
    LET high_vol == [t \in 1..Len(df.Close) |-> df.volatility[t] > st.vol_halt]
    IN  [Close      |-> df.Close,
         volatility |-> df.volatility,
         signal     |-> [t \in 1..Len(df.Close) |-> 0],
         bid_active |-> [t \in 1..Len(df.Close) |->
                            /\ ~high_vol[t]
                            /\ 2 * st.current_position < 3 * st.inventory_soft_limit],
         ask_active |-> [t \in 1..Len(df.Close) |->
                            /\ ~high_vol[t]
                            /\ 2 * st.current_position > -3 * st.inventory_soft_limit]]

\* Strategy.run of a PennyInPennyOutStrategy
PennyInPennyOut_run(st, close, rolling_std) ==
    PennyInPennyOut_generate_signals(st,
        PennyInPennyOut_add_indicators(st, close, rolling_std))

----------------------------------------------------------------------------
(* Backtester *)

Backtester ==
    [trades          |-> << >>,
     equity_curve    |-> << >>,
     position        |-> 0,
     cash            |-> InitialCash,
     portfolio_value |-> InitialCash,
     last_price      |-> None,
     market_df       |-> << >>]

\* Mutant: settles the ordered quantity instead of the filled one.
_execute_order_full_qty(b, order, result, t_trade) ==
    IF result.status = "filled" \/ result.status = "partial"
    THEN LET settled ==
                 IF order.side = "buy"
                 THEN [b EXCEPT !.position = @ + order.qty,
                                !.cash = @ - order.price * order.qty]
                 ELSE [b EXCEPT !.position = @ - order.qty,
                                !.cash = @ + order.price * order.qty]
         IN  [settled EXCEPT !.trades = Append(@,
                 [timestamp |-> t_trade, side |-> order.side, price |-> order.price,
                  qty |-> result.filled_qty, status |-> result.status])]
    ELSE b

\* Mutant: a cancelled execution is logged as a trade of quantity 0.
_execute_order_logs_cancelled(b, order, result, t_trade) ==
    LET fill_qty   == result.filled_qty
        fill_price == order.price
        settled ==
            IF order.side = "buy"
            THEN [b EXCEPT !.position = @ + fill_qty,
                           !.cash = @ - fill_price * fill_qty]
            ELSE [b EXCEPT !.position = @ - fill_qty,
                           !.cash = @ + fill_price * fill_qty]
    IN  [settled EXCEPT !.trades = Append(@,
            [timestamp |-> t_trade, side |-> order.side, price |-> fill_price,
             qty |-> fill_qty, status |-> result.status])]

\* Mutant: the new trade is put in front of the log.
_execute_order_prepends(b, order, result, t_trade) ==
    IF result.status = "filled" \/ result.status = "partial"
    THEN LET fill_qty   == result.filled_qty
             fill_price == order.price
             settled ==
                 IF order.side = "buy"
                 THEN [b EXCEPT !.position = @ + fill_qty,
                                !.cash = @ - fill_price * fill_qty]
                 ELSE [b EXCEPT !.position = @ - fill_qty,
                                !.cash = @ + fill_price * fill_qty]
         IN  [settled EXCEPT !.trades =
                 <<[timestamp |-> t_trade, side |-> order.side, price |-> fill_price,
                    qty |-> fill_qty, status |-> result.status]>> \o @]
    ELSE b

\* Mutant: a cancelled order is settled for its whole quantity, without a trade.
_execute_order_settles_cancelled(b, order, result, t_trade) ==
    LET fill_qty   == IF result.status = "cancelled" THEN order.qty
                      ELSE result.filled_qty
        fill_price == order.price
        settled ==
            IF order.side = "buy"
            THEN [b EXCEPT !.position = @ + fill_qty,
                           !.cash = @ - fill_price * fill_qty]
            ELSE [b EXCEPT !.position = @ - fill_qty,
                           !.cash = @ + fill_price * fill_qty]
    IN  IF result.status = "filled" \/ result.status = "partial"
        THEN [settled EXCEPT !.trades = Append(@,
                 [timestamp |-> t_trade, side |-> order.side, price |-> fill_price,
                  qty |-> fill_qty, status |-> result.status])]
        ELSE settled

\* Mutant: the fill is settled one price unit above the order's price.
_execute_order_slipped(b, order, result, t_trade) ==
    IF result.status = "filled" \/ result.status = "partial"
    THEN LET fill_qty   == result.filled_qty
             fill_price == order.price + 1
             settled ==
                 IF order.side = "buy"
                 THEN [b EXCEPT !.position = @ + fill_qty,
                                !.cash = @ - fill_price * fill_qty]
                 ELSE [b EXCEPT !.position = @ - fill_qty,
                                !.cash = @ + fill_price * fill_qty]
         IN  [settled EXCEPT !.trades = Append(@,
                 [timestamp |-> t_trade, side |-> order.side, price |-> fill_price,
                  qty |-> fill_qty, status |-> result.status])]
    ELSE b

\* The ledger after result has been applied; t_trade is the trade's timestamp.
_execute_order(b, order, result, t_trade) ==
    IF result.status = "filled" \/ result.status = "partial"
    THEN LET fill_qty   == result.filled_qty
             fill_price == order.price
             settled ==
                 IF order.side = "buy"
                 THEN [b EXCEPT !.position = @ + fill_qty,
                                !.cash = @ - fill_price * fill_qty]
                 ELSE [b EXCEPT !.position = @ - fill_qty,
                                !.cash = @ + fill_price * fill_qty]
         IN  [settled EXCEPT !.trades = Append(@,
                 [timestamp |-> t_trade, side |-> order.side, price |-> fill_price,
                  qty |-> fill_qty, status |-> result.status])]
    ELSE b

\* Mutant: marks the portfolio with the previous close instead of the new one.
_update_equity_stale(b, price) ==
    LET value == b.cash + b.position * b.last_price
    IN  [b EXCEPT !.last_price = price,
                  !.portfolio_value = value,
                  !.equity_curve = Append(@, value)]

_update_equity(b, price) ==
    LET value == b.cash + b.position * price
    IN  [b EXCEPT !.last_price = price,
                  !.portfolio_value = value,
                  !.equity_curve = Append(@, value)]

\* OrderBook.add_order
add_order(book, order) == Append(book, order)

\* The record kept in last.
Outcome(op, signal, price, order, verdict, msg, evaluated, t_call, result) ==
    [op |-> op, signal |-> signal, price |-> price, order |-> order,
     verdict |-> verdict, msg |-> msg, evaluated |-> evaluated,
     t_call |-> t_call, result |-> result]

NoOutcome == Outcome("init", 0, 0, NoOrder, "none", "", << >>, 0, NoResult)

\* Mutant: a rejected order is executed all the same.
Tick_forward_rejected(signal, d, g, r, u) ==
    /\ pc = "loop"
    /\ has_next(data_gateway)
    /\ now + d + g <= MaxTime
    /\ LET price  == data_gateway.data[data_gateway.pointer + 1]
           marked == _update_equity(
                        [bt EXCEPT !.market_df = Append(@, price)], price)
           order  == Order(Len(bt.trades), IF signal = 1 THEN "buy" ELSE "sell",
                           price, OrderQty)
           t_chk  == now + d
           t_rec  == t_chk + g
           v      == validate(order_manager, order, t_chk, t_rec)
           result == simulate_execution(order, r, u)
       IN  /\ data_gateway' = [data_gateway EXCEPT !.pointer = @ + 1]
           /\ IF signal = 0
              THEN /\ bt' = marked
                   /\ now' = t_chk
                   /\ UNCHANGED <<order_manager, order_book, accepted_ts>>
                   /\ last' = Outcome("tick", signal, price, NoOrder, "none", "",
                                      << >>, t_chk, NoResult)
              ELSE IF ~v.ok
              THEN /\ bt' = _execute_order(marked, order, result, t_chk)
                   /\ now' = t_chk
                   /\ order_manager' = v.om
                   /\ UNCHANGED <<order_book, accepted_ts>>
                   /\ last' = Outcome("tick", signal, price, order, "rejected", v.msg,
                                      v.evaluated, t_chk, result)
              ELSE /\ bt' = _execute_order(marked, order, result, t_rec)
                   /\ now' = t_rec
                   /\ order_manager' = v.om
                   /\ order_book' = add_order(order_book, order)
                   /\ accepted_ts' = Append(accepted_ts, t_rec)
                   /\ last' = Outcome("tick", signal, price, order, "accepted", v.msg,
                                      v.evaluated, t_chk, result)
    /\ UNCHANGED <<pc, strategy, rng, sim, gens, feed, frame, pa, logger, trader, mm>>

\* One iteration of the loop of Backtester.run: the next row of the stream, the
\* strategy's signal for it, mark to market, and for a nonzero signal the
\* order, its validation and, when approved, its execution.
\* d: seconds since the previous operation, g: seconds between validate's two
\* clock reads, r and u: the matching engine's draws.
Tick(signal, d, g, r, u) ==
    /\ pc = "loop"
    /\ has_next(data_gateway)
    /\ now + d + g <= MaxTime
    /\ LET price  == data_gateway.data[data_gateway.pointer + 1]
           marked == _update_equity(
                        [bt EXCEPT !.market_df = Append(@, price)], price)
           order  == Order(Len(bt.trades), IF signal = 1 THEN "buy" ELSE "sell",
                           price, OrderQty)
           t_chk  == now + d
           t_rec  == t_chk + g
           v      == validate(order_manager, order, t_chk, t_rec)
           result == simulate_execution(order, r, u)
       IN  /\ data_gateway' = [data_gateway EXCEPT !.pointer = @ + 1]
           /\ IF signal = 0
              THEN /\ bt' = marked
                   /\ now' = t_chk
                   /\ UNCHANGED <<order_manager, order_book, accepted_ts>>
                   /\ last' = Outcome("tick", signal, price, NoOrder, "none", "",
                                      << >>, t_chk, NoResult)
              ELSE IF ~v.ok
              THEN /\ bt' = marked
                   /\ now' = t_chk
                   /\ order_manager' = v.om
                   /\ UNCHANGED <<order_book, accepted_ts>>
                   /\ last' = Outcome("tick", signal, price, order, "rejected", v.msg,
                                      v.evaluated, t_chk, NoResult)
              ELSE /\ bt' = _execute_order(marked, order, result, t_rec)
                   /\ now' = t_rec
                   /\ order_manager' = v.om
                   /\ order_book' = add_order(order_book, order)
                   /\ accepted_ts' = Append(accepted_ts, t_rec)
                   /\ last' = Outcome("tick", signal, price, order, "accepted", v.msg,
                                      v.evaluated, t_chk, result)
    /\ UNCHANGED <<pc, strategy, rng, sim, gens, feed, frame, pa, logger, trader, mm>>

\* Mutant: the loop is also left after a rejected order.
RunReturn_after_rejection ==
    /\ pc = "loop"
    /\ (~has_next(data_gateway) \/ last.verdict = "rejected")
    /\ pc' = "returned"
    /\ last' = [NoOutcome EXCEPT !.op = "return"]
    /\ UNCHANGED <<data_gateway, order_manager, order_book, bt, now, accepted_ts,
                   strategy, rng, sim, gens, feed, frame,
                   pa, logger, trader, mm>>

\* The stream is exhausted: run returns the equity curve.
RunReturn ==
    /\ pc = "loop"
    /\ ~has_next(data_gateway)
    /\ pc' = "returned"
    /\ last' = [NoOutcome EXCEPT !.op = "return"]
    /\ UNCHANGED <<data_gateway, order_manager, order_book, bt, now, accepted_ts,
                   strategy, rng, sim, gens, feed, frame,
                   pa, logger, trader, mm>>

Init ==
    /\ data_gateway \in {MarketDataGateway(d) : d \in [1..MaxBars -> Prices]}
    /\ order_manager = OrderManager(Capital, MaxPosition, MaxOrdersPerMin)
    /\ order_book = << >>
    /\ bt = Backtester
    /\ pc = "loop"
    /\ now = 0
    /\ accepted_ts = << >>
    /\ strategy = Strategy
    /\ EngineIdle /\ StreamsIdle /\ frame = NoFrame
    /\ AnalyzerIdle /\ LoggerIdle /\ TraderIdle /\ MarketMakerIdle
    /\ last = NoOutcome

Next ==
    \/ \E signal \in Signals, d \in TickClockSteps, g \in TickReadGap,
          r \in RDraws, u \in UDraws : Tick(signal, d, g, r, u)
    \/ RunReturn

Spec == Init /\ [][Next]_vars

\* The loop is sequential code whose calls all return (stream() is called
\* without a delay and sleeps nowhere): a step that can be taken is taken.
SpecLive == Spec /\ WF_vars(Next)

----------------------------------------------------------------------------
(* Backtester.run with a MovingAverageStrategy *)

\* The (short_window, long_window) pairs the constructor accepts.
Windows == {w \in (1..MaxWindow) \X (1..MaxWindow) : w[1] < w[2]}

\* df.iloc[-1]["signal"] of strategy.run(df)
LatestSignal(st, close) == run(st, close).signal[Len(close)]

\* One iteration of the loop, the signal being the strategy's for the rows
\* read so far.
TickMA(d, g, r, u) ==
    /\ has_next(data_gateway)
    /\ Tick(LatestSignal(strategy,
                Append(bt.market_df, data_gateway.data[data_gateway.pointer + 1])),
            d, g, r, u)

InitMA ==
    /\ data_gateway \in {MarketDataGateway(d) : d \in [1..MaxBars -> Prices]}
    /\ order_manager \in {OrderManager(Capital, MaxPosition, m) :
                              m \in 1..MaxOrdersPerMin}
    /\ order_book = << >>
    /\ bt = Backtester
    /\ pc = "loop"
    /\ now = 0
    /\ accepted_ts = << >>
    /\ strategy \in {MovingAverageStrategy(w[1], w[2]) : w \in Windows}
    /\ EngineIdle /\ StreamsIdle /\ frame = NoFrame
    /\ AnalyzerIdle /\ LoggerIdle /\ TraderIdle /\ MarketMakerIdle
    /\ last = NoOutcome

NextMA ==
    \/ \E d \in TickClockSteps, g \in TickReadGap, r \in RDraws, u \in UDraws :
          TickMA(d, g, r, u)
    \/ RunReturn

SpecMA == InitMA /\ [][NextMA]_vars

----------------------------------------------------------------------------
(* MatchingEngine.simulate_execution on the generator of module random *)

\* The components of a back-test, constructed and left alone.
BacktestIdle ==
    /\ data_gateway = MarketDataGateway(<< >>)
    /\ order_manager = OrderManager(Capital, MaxPosition, MaxOrdersPerMin)
    /\ order_book = << >>
    /\ bt = Backtester
    /\ pc = "loop"
    /\ now = 0
    /\ accepted_ts = << >>
    /\ strategy = Strategy

\* The engine at work executes its next order.
SimulateNext ==
    /\ Len(sim.fills[sim.turn]) < Len(sim.orders)
    /\ rng.index + DrawsNeeded(rng) <= Len(rng.stream)
    /\ LET order == sim.orders[Len(sim.fills[sim.turn]) + 1]
           out   == simulate_execution_random(order, rng)
       IN  /\ rng' = out.g
           /\ sim' = [sim EXCEPT !.fills[sim.turn] = Append(@, out.result)]
           /\ last' = Outcome("simulate_execution", 0, order.price, order, "none",
                              "", << >>, now, out.result)
    /\ UNCHANGED <<data_gateway, order_manager, order_book, bt, pc, now,
                   accepted_ts, strategy, gens, feed, frame,
                   pa, logger, trader, mm>>

\* The first engine is done: random.seed(s) with the same seed, and the second
\* engine is given the same orders.
Reseed ==
    /\ sim.turn = 1
    /\ Len(sim.fills[1]) = Len(sim.orders)
    /\ rng' = seed(rng)
    /\ sim' = [sim EXCEPT !.turn = 2]
    /\ last' = [NoOutcome EXCEPT !.op = "seed"]
    /\ UNCHANGED <<data_gateway, order_manager, order_book, bt, pc, now,
                   accepted_ts, strategy, gens, feed, frame,
                   pa, logger, trader, mm>>

\* Some other code of the process calls random.random().
OtherConsumer ==
    /\ rng.index < Len(rng.stream)
    /\ rng' = random(rng).g
    /\ last' = [NoOutcome EXCEPT !.op = "random"]
    /\ UNCHANGED <<data_gateway, order_manager, order_book, bt, pc, now,
                   accepted_ts, strategy, sim, gens, feed, frame,
                   pa, logger, trader, mm>>

InitME ==
    /\ BacktestIdle
    /\ rng \in {Random(st) : st \in [1..StreamLen -> StreamDraws]}
    /\ sim \in {Simulators([i \in 1..NOrders |-> Order(i - 1, "buy", 100, q[i])]) :
                    q \in [1..NOrders -> SimQtys]}
    /\ StreamsIdle
    /\ AnalyzerIdle /\ LoggerIdle /\ TraderIdle /\ MarketMakerIdle
    /\ frame = NoFrame
    /\ last = NoOutcome

NextME == SimulateNext \/ Reseed \/ OtherConsumer

SpecME == InitME /\ [][NextME]_vars

----------------------------------------------------------------------------
(* MarketDataGateway and its consumers *)

\* The record kept in last by an operation of the gateway; gen is the index
\* of the generator object concerned, 0 when there is none.
GwOutcome(op, status, row, gen) ==
    [op |-> op, status |-> status, row |-> row, gen |-> gen]

\* feed after an operation that has rewound the gateway or not, and has
\* delivered a row or not.
Record(f, rewound, status, row) ==
    LET base == IF rewound THEN [f EXCEPT !.rows = << >>, !.rewinds = @ + 1]
                ELSE f
    IN  IF status = "row" THEN [base EXCEPT !.rows = Append(@, row)] ELSE base

GwFrame ==
    UNCHANGED <<order_manager, order_book, bt, pc, now, accepted_ts, strategy,
                rng, sim, frame,
                pa, logger, trader, mm>>

Call_next ==
    /\ data_gateway' = __next__(data_gateway).gw
    /\ feed' = Record(feed, FALSE, __next__(data_gateway).status,
                      __next__(data_gateway).row)
    /\ last' = GwOutcome("__next__", __next__(data_gateway).status,
                         __next__(data_gateway).row, 0)
    /\ UNCHANGED gens
    /\ GwFrame

Call_get_next ==
    /\ data_gateway' = get_next(data_gateway).gw
    /\ feed' = Record(feed, FALSE, get_next(data_gateway).status,
                      get_next(data_gateway).row)
    /\ last' = GwOutcome("get_next", get_next(data_gateway).status,
                         get_next(data_gateway).row, 0)
    /\ UNCHANGED gens
    /\ GwFrame

Call_has_next ==
    /\ last' = GwOutcome("has_next",
                         IF has_next(data_gateway) THEN "True" ELSE "False",
                         NoRow, 0)
    /\ UNCHANGED <<data_gateway, gens, feed>>
    /\ GwFrame

Call_reset ==
    /\ feed.rewinds < MaxRewinds
    /\ data_gateway' = reset(data_gateway)
    /\ feed' = Record(feed, TRUE, "None", NoRow)
    /\ last' = GwOutcome("reset", "None", NoRow, 0)
    /\ UNCHANGED gens
    /\ GwFrame

Call_iter ==
    /\ feed.rewinds < MaxRewinds
    /\ data_gateway' = __iter__(data_gateway)
    /\ feed' = Record(feed, TRUE, "self", NoRow)
    /\ last' = GwOutcome("__iter__", "self", NoRow, 0)
    /\ UNCHANGED gens
    /\ GwFrame

\* stream(reset=reset_arg) returns a new generator object.
Call_stream(reset_arg) ==
    /\ Len(gens) < MaxGens
    /\ gens' = Append(gens, stream(reset_arg))
    /\ last' = GwOutcome("stream", "generator", NoRow, Len(gens) + 1)
    /\ UNCHANGED <<data_gateway, feed>>
    /\ GwFrame

\* next() on the i-th generator object.
Resume(i) ==
    /\ i \in DOMAIN gens
    /\ LET out == resume(gens[i], data_gateway)
       IN  /\ out.rewound => feed.rewinds < MaxRewinds
           /\ gens' = [gens EXCEPT ![i] = out.gen]
           /\ data_gateway' = out.gw
           /\ feed' = Record(feed, out.rewound, out.status, out.row)
           /\ last' = GwOutcome("next(stream)", out.status, out.row, i)
    /\ GwFrame

InitGW ==
    /\ \E n \in 0..MaxBars : \E rows \in CsvFiles(n) :
          /\ data_gateway = MarketDataGatewayFromCsv(rows)
          /\ feed = [NoFeed EXCEPT !.csv = rows]
    /\ order_manager = OrderManager(Capital, MaxPosition, MaxOrdersPerMin)
    /\ order_book = << >>
    /\ bt = Backtester
    /\ pc = "loop"
    /\ now = 0
    /\ accepted_ts = << >>
    /\ strategy = Strategy
    /\ EngineIdle
    /\ AnalyzerIdle /\ LoggerIdle /\ TraderIdle /\ MarketMakerIdle
    /\ gens = << >>
    /\ frame = NoFrame
    /\ last = GwOutcome("init", "None", NoRow, 0)

NextGW ==
    \/ Call_next
    \/ Call_get_next
    \/ Call_has_next
    \/ Call_reset
    \/ Call_iter
    \/ \E reset_arg \in BOOLEAN : Call_stream(reset_arg)
    \/ \E i \in 1..MaxGens : Resume(i)

SpecGW == InitGW /\ [][NextGW]_vars

----------------------------------------------------------------------------
(* MovingAverageStrategy run on a close series *)

\* strategy.run(df) on a data frame that holds the closes.
RunStrategy ==
    /\ "signal" \notin DOMAIN frame
    /\ frame' = run(strategy, frame.Close)
    /\ last' = [NoOutcome EXCEPT !.op = "run"]
    /\ UNCHANGED <<data_gateway, order_manager, order_book, bt, pc, now,
                   accepted_ts, strategy, rng, sim, gens, feed,
                   pa, logger, trader, mm>>

InitST ==
    /\ data_gateway = MarketDataGateway(<< >>)
    /\ order_manager = OrderManager(Capital, MaxPosition, MaxOrdersPerMin)
    /\ order_book = << >>
    /\ bt = Backtester
    /\ pc = "loop"
    /\ now = 0
    /\ accepted_ts = << >>
    /\ strategy \in {MovingAverageStrategy(w[1], w[2]) :
                        w \in {v \in (1..MaxLookback) \X (1..MaxLookback) : v[1] < v[2]}}
    /\ EngineIdle
    /\ StreamsIdle
    /\ AnalyzerIdle /\ LoggerIdle /\ TraderIdle /\ MarketMakerIdle
    /\ \E n \in 0..MaxSeries : \E close \in [1..n -> SeriesPrices] :
          frame = [Close |-> close]
    /\ last = NoOutcome

NextST == RunStrategy

SpecST == InitST /\ [][NextST]_vars

-----------------------------------------------------------------------------
(* Construction and use of the two strategy classes: a script constructs a
   strategy, a trader injects its position, and the window is run. *)

\* The record kept in last by the strategy scripts.
StrategyOutcome(op, class, args, raised) ==
    [op |-> op, class |-> class, args |-> args, raised |-> raised]

\* strategy = MovingAverageStrategy(short_window, long_window)
NewMovingAverageStrategy(short_window, long_window) ==
    /\ pc = "new"
    /\ LET st == MovingAverageStrategy(short_window, long_window)
           raised == "raised" \in DOMAIN st
       IN  /\ strategy' = IF raised THEN strategy ELSE st
           /\ pc' = IF raised THEN "failed" ELSE "constructed"
           /\ last' = StrategyOutcome("construct", "MovingAverageStrategy",
                                      <<short_window, long_window>>, raised)
    /\ UNCHANGED <<data_gateway, order_manager, order_book, bt, now,
                   accepted_ts, rng, sim, gens, feed, frame,
                   pa, logger, trader, mm>>

\* strategy = PennyInPennyOutStrategy(tick_size=..., inventory_soft_limit=...)
NewPennyInPennyOutStrategy(tick_size, inventory_soft_limit) ==
    /\ pc = "new"
    /\ LET st == PennyInPennyOutStrategy(tick_size, inventory_soft_limit,
                                         VolHaltDefault)
           raised == "raised" \in DOMAIN st
       IN  /\ strategy' = IF raised THEN strategy ELSE st
           /\ pc' = IF raised THEN "failed" ELSE "constructed"
           /\ last' = StrategyOutcome("construct", "PennyInPennyOutStrategy",
                                      <<tick_size, inventory_soft_limit>>, raised)
    /\ UNCHANGED <<data_gateway, order_manager, order_book, bt, now,
                   accepted_ts, rng, sim, gens, feed, frame,
                   pa, logger, trader, mm>>

\* AlpacaMarketMaker.update_position: self.strategy.update_context(self.position)
UpdateContext(position) ==
    /\ pc = "constructed"
    /\ "tick_size" \in DOMAIN strategy
    /\ "signal" \notin DOMAIN frame
    /\ last.op = "construct"
    /\ strategy' = update_context(strategy, position)
    /\ last' = StrategyOutcome("update_context", "PennyInPennyOutStrategy",
                               <<position>>, FALSE)
    /\ UNCHANGED <<data_gateway, order_manager, order_book, bt, pc, now,
                   accepted_ts, rng, sim, gens, feed, frame,
                   pa, logger, trader, mm>>

\* strategy.run(df) of a MovingAverageStrategy
RunMovingAverage ==
    /\ pc = "constructed"
    /\ "short_window" \in DOMAIN strategy
    /\ "signal" \notin DOMAIN frame
    /\ frame' = run(strategy, frame.Close)
    /\ last' = StrategyOutcome("run", "MovingAverageStrategy", << >>, FALSE)
    /\ UNCHANGED <<data_gateway, order_manager, order_book, bt, pc, now,
                   accepted_ts, strategy, rng, sim, gens, feed,
                   pa, logger, trader, mm>>

\* strategy.run(df) of a PennyInPennyOutStrategy
RunPennyInPennyOut(rolling_std) ==
    /\ pc = "constructed"
    /\ "tick_size" \in DOMAIN strategy
    /\ "signal" \notin DOMAIN frame
    /\ frame' = PennyInPennyOut_run(strategy, frame.Close, rolling_std)
    /\ last' = StrategyOutcome("run", "PennyInPennyOutStrategy", << >>, FALSE)
    /\ UNCHANGED <<data_gateway, order_manager, order_book, bt, pc, now,
                   accepted_ts, strategy, rng, sim, gens, feed,
                   pa, logger, trader, mm>>

InitSG ==
    /\ data_gateway = MarketDataGateway(<< >>)
    /\ order_manager = OrderManager(Capital, MaxPosition, MaxOrdersPerMin)
    /\ order_book = << >>
    /\ bt = Backtester
    /\ pc = "new"
    /\ now = 0
    /\ accepted_ts = << >>
    /\ strategy = Strategy
    /\ EngineIdle
    /\ StreamsIdle
    /\ AnalyzerIdle /\ LoggerIdle /\ TraderIdle /\ MarketMakerIdle
    /\ \E n \in 0..MaxRows : \E close \in [1..n -> SeriesPrices] :
          frame = [Close |-> close]
    /\ last = StrategyOutcome("init", "", << >>, FALSE)

NextSG ==
    \/ \E s \in 1..MaxLookback : \E l \in 1..MaxLookback :
          NewMovingAverageStrategy(s, l)
    \/ \E tick \in TickSizes : \E soft \in SoftLimits :
          NewPennyInPennyOutStrategy(tick, soft)
    \/ \E p \in -MaxInventory..MaxInventory : UpdateContext(p)
    \/ RunMovingAverage
    \/ \E rolling_std \in [1..Len(frame.Close) -> VolLevels] :
          RunPennyInPennyOut(rolling_std)

SpecSG == InitSG /\ [][NextSG]_vars

----------------------------------------------------------------------------
(* PerformanceAnalyzer on an equity curve of floats.  A float is a binary
   floating-point number of MantissaBits bits, every operation rounding its
   exact result to the nearest float, ties to the even mantissa; it is written
   as the fraction num / den in a unique form, and NaN has den = 0. *)

\* The float of mantissa m and exponent e.
Float(m, e) == IF e >= 0 THEN [num |-> m * 2^e, den |-> 1]
               ELSE [num |-> m, den |-> 2^(-e)]

\* The float nearest to (n / d) * 2^e, for n > 0 and d > 0.
RECURSIVE RoundPositive(_, _, _)
RoundPositive(n, d, e) ==
    IF n % 2 = 0 /\ d % 2 = 0 THEN RoundPositive(n \div 2, d \div 2, e)
    ELSE IF n \div d >= 2^MantissaBits THEN RoundPositive(n, 2 * d, e + 1)
    ELSE IF n \div d < 2^(MantissaBits - 1) THEN RoundPositive(2 * n, d, e - 1)
    ELSE LET q == n \div d
             r == n % d
             m == IF 2 * r > d \/ (2 * r = d /\ q % 2 = 1) THEN q + 1 ELSE q
         IN  IF m = 2^MantissaBits THEN Float(2^(MantissaBits - 1), e + 1)
             ELSE Float(m, e)

\* The float nearest to n / d, for d > 0.
fl(n, d) ==
    IF n = 0 THEN [num |-> 0, den |-> 1]
    ELSE IF n < 0 THEN [RoundPositive(-n, d, 0) EXCEPT !.num = -@]
    ELSE RoundPositive(n, d, 0)

\* a + b, a - b, a * b and a / b of two floats (b # 0 in a / b); a sum is
\* taken over the larger of the two denominators, which are powers of 2.
fadd(a, b) ==
    LET d == IF a.den >= b.den THEN a.den ELSE b.den
    IN  fl(a.num * (d \div a.den) + b.num * (d \div b.den), d)
fsub(a, b) == fadd(a, [b EXCEPT !.num = -@])
fmul(a, b) == fl(a.num * b.num, a.den * b.den)
fdiv(a, b) == IF b.num < 0 THEN fl(-(a.num * b.den), a.den * (-b.num))
              ELSE fl(a.num * b.den, a.den * b.num)

\* The equity values that are floats, as floats.
EquityLevels == {fl(x, 1) : x \in {y \in EquityValues : fl(y, 1) = [num |-> y, den |-> 1]}}

\* PerformanceAnalyzer.__init__
PerformanceAnalyzer(equity_curve, trades) ==
    [equity_curve |-> equity_curve, trades |-> trades]

\* PerformanceAnalyzer.returns: np.diff(eq) / eq[:-1]
returns(an) ==
    LET eq == an.equity_curve
    IN  [i \in 1..(Len(eq) - 1) |-> fdiv(fsub(eq[i + 1], eq[i]), eq[i])]

\* np.add.reduce over the first k entries, one after the other.
RECURSIVE add_reduce(_, _)
add_reduce(x, k) ==
    IF k = 0 THEN fl(0, 1) ELSE fadd(add_reduce(x, k - 1), x[k])

\* ndarray.mean(): the sum divided by the count; NaN for no entry.
mean(x) ==
    IF Len(x) = 0 THEN NaN ELSE fdiv(add_reduce(x, Len(x)), fl(Len(x), 1))

\* The square of ndarray.std(): the mean of the squares of x - x.mean().
variance(x) ==
    IF Len(x) = 0 THEN NaN
    ELSE LET m  == mean(x)
             sq == [i \in 1..Len(x) |-> fmul(fsub(x[i], m), fsub(x[i], m))]
         IN  fdiv(add_reduce(sq, Len(x)), fl(Len(x), 1))

\* PerformanceAnalyzer.sharpe with rf = 0.0.  r.std() == 0 holds exactly when
\* the variance is the float 0 (it is False for NaN).  zero says that the int 0
\* was returned; otherwise the value is mean / sqrt(variance) * sqrt(98280).
sharpe(an) ==
    LET r == returns(an)
    IN  IF variance(r) = fl(0, 1)
        THEN [zero |-> TRUE, mean |-> fl(0, 1), variance |-> fl(0, 1)]
        ELSE [zero |-> FALSE, mean |-> mean(r), variance |-> variance(r)]

\* pa.returns()
CallReturns ==
    /\ pc = "report"
    /\ last' = [op |-> "returns", value |-> returns(pa)]
    /\ UNCHANGED <<data_gateway, order_manager, order_book, bt, pc, now,
                   accepted_ts, strategy, rng, sim, gens, feed, frame,
                   pa, logger, trader, mm>>

\* pa.sharpe()
CallSharpe ==
    /\ pc = "report"
    /\ last' = [op |-> "sharpe", value |-> sharpe(pa)]
    /\ UNCHANGED <<data_gateway, order_manager, order_book, bt, pc, now,
                   accepted_ts, strategy, rng, sim, gens, feed, frame,
                   pa, logger, trader, mm>>

InitPA ==
    /\ data_gateway = MarketDataGateway(<< >>)
    /\ order_manager = OrderManager(Capital, MaxPosition, MaxOrdersPerMin)
    /\ order_book = << >>
    /\ bt = Backtester
    /\ pc = "report"
    /\ now = 0
    /\ accepted_ts = << >>
    /\ strategy = Strategy
    /\ EngineIdle /\ StreamsIdle /\ frame = NoFrame
    /\ \E n \in 0..MaxCurve : \E curve \in [1..n -> EquityLevels] :
          pa = PerformanceAnalyzer(curve, << >>)
    /\ LoggerIdle /\ TraderIdle /\ MarketMakerIdle
    /\ last = [op |-> "init", value |-> << >>]

NextPA == CallReturns \/ CallSharpe

SpecPA == InitPA /\ [][NextPA]_vars

-----------------------------------------------------------------------------
(* OrderLoggingGateway.log, in two steps: up to the with statement's open, and
   the with block with the release of the handle that ends it *)

\* json.dumps(event): the line's text, here the event it encodes; TypeError
\* for a value json cannot serialise.
dumps(event) ==
    IF event.data.serialisable THEN [raised |-> "", text |-> event]
    ELSE [raised |-> "TypeError", text |-> NoEvent]

\* The record kept in last by log.
LogOutcome(op, raised) == [op |-> op, raised |-> raised]

\* log builds the event and opens the file for appending; open either gives a
\* handle or raises OSError, which ends the call.
LogOpen(event_type, data, d, opened) ==
    /\ pc = "idle"
    /\ now + d <= MaxLogTime
    /\ Len(logger.file) < MaxLines
    /\ now' = now + d
    /\ IF opened
       THEN /\ logger' = [logger EXCEPT
                             !.handles = @ + 1,
                             !.event = [event |-> event_type, timestamp |-> now',
                                        data |-> data]]
            /\ pc' = "with"
            /\ last' = LogOutcome("open", "")
       ELSE /\ logger' = logger
            /\ pc' = "idle"
            /\ last' = LogOutcome("log", "OSError")
    /\ UNCHANGED <<data_gateway, order_manager, order_book, bt, accepted_ts,
                   strategy, rng, sim, gens, feed, frame, pa, trader, mm>>

\* Mutant: the handle is closed after the write, not by a with statement, so
\* an exception in between leaves it open.
LogWrite_leaks_on_error ==
    /\ pc = "with"
    /\ LET line == dumps(logger.event)
       IN  /\ logger' = IF line.raised # ""
                        THEN [logger EXCEPT !.event = NoEvent]
                        ELSE [logger EXCEPT !.file = Append(@, line.text),
                                            !.handles = @ - 1,
                                            !.event = NoEvent]
           /\ last' = LogOutcome("log", line.raised)
    /\ pc' = "idle"
    /\ UNCHANGED <<data_gateway, order_manager, order_book, bt, now, accepted_ts,
                   strategy, rng, sim, gens, feed, frame, pa, trader, mm>>

\* The with block: f.write(json.dumps(event) + "\n"), then the handle is
\* closed, whether the block ended normally or by an exception.
LogWrite ==
    /\ pc = "with"
    /\ LET line == dumps(logger.event)
       IN  /\ logger' = IF line.raised # ""
                        THEN [logger EXCEPT !.handles = @ - 1,
                                            !.event = NoEvent]
                        ELSE [logger EXCEPT !.file = Append(@, line.text),
                                            !.handles = @ - 1,
                                            !.event = NoEvent]
           /\ last' = LogOutcome("log", line.raised)
    /\ pc' = "idle"
    /\ UNCHANGED <<data_gateway, order_manager, order_book, bt, now, accepted_ts,
                   strategy, rng, sim, gens, feed, frame, pa, trader, mm>>

InitLG ==
    /\ data_gateway = MarketDataGateway(<< >>)
    /\ order_manager = OrderManager(Capital, MaxPosition, MaxOrdersPerMin)
    /\ order_book = << >>
    /\ bt = Backtester
    /\ pc = "idle"
    /\ now = 0
    /\ accepted_ts = << >>
    /\ strategy = Strategy
    /\ EngineIdle /\ StreamsIdle /\ frame = NoFrame
    /\ AnalyzerIdle /\ TraderIdle /\ MarketMakerIdle
    /\ logger = OrderLoggingGateway
    /\ last = LogOutcome("init", "")

NextLG ==
    \/ \E event_type \in EventTypes, data \in LogData, d \in 0..1,
          opened \in BOOLEAN : LogOpen(event_type, data, d, opened)
    \/ LogWrite

SpecLG == InitLG /\ [][NextLG]_vars

-----------------------------------------------------------------------------
(* alpaca_crypto_after_hours: the quote handler of the crypto trader.  trader
   holds the module's state, the calendar day and the symbols that the
   flattening of a halt has still to visit; now is time.time(). *)

\* send_qty_order: the orders that reach the broker, none when qty <= 0 or
\* when submit_order raises.  by names the function that asked for the order.
send_qty_order(symbol, side, qty, ok, by) ==
    IF qty <= 0 \/ ~ok THEN << >>
    ELSE <<[symbol |-> symbol, side |-> side, by |-> by]>>

\* send_notional_order: none when the notional is not positive, below
\* MIN_ORDER_NOTIONAL, or when submit_order raises.
send_notional_order(symbol, side, notional, ok, by) ==
    IF notional <= 0 \/ notional < MIN_ORDER_NOTIONAL \/ ~ok THEN << >>
    ELSE <<[symbol |-> symbol, side |-> side, by |-> by]>>

\* trading_client.submit_order for the orders of sent, which are all for one
\* symbol: the broker has the last of them as the symbol's latest order.
submit_order(tr, sent) ==
    IF sent = << >> THEN tr
    ELSE [tr EXCEPT !.submitted[sent[Len(sent)].symbol] = sent[Len(sent)].side]

\* flip_to_long; qty is get_position_qty(symbol), t is time.time().
flip_to_long(tr, symbol, notional, qty, ok_cover, ok_open, t) ==
    [tr   |-> [tr EXCEPT !.state.symbols[symbol] =
                  [position_side |-> "long", last_trade_time |-> t]],
     sent |-> (IF qty < 0 THEN send_qty_order(symbol, "buy", -qty, ok_cover, "flip")
               ELSE << >>)
              \o send_notional_order(symbol, "buy", notional, ok_open, "flip")]

\* flip_to_short
flip_to_short(tr, symbol, notional, qty, ok_cover, ok_open, t) ==
    [tr   |-> [tr EXCEPT !.state.symbols[symbol] =
                  [position_side |-> "short", last_trade_time |-> t]],
     sent |-> (IF qty > 0 THEN send_qty_order(symbol, "sell", qty, ok_cover, "flip")
               ELSE << >>)
              \o send_notional_order(symbol, "sell", notional, ok_open, "flip")]

\* flatten_symbol
flatten_symbol(tr, symbol, qty, ok, t) ==
    [tr   |-> [tr EXCEPT !.state.symbols[symbol] =
                  [position_side |-> "flat", last_trade_time |-> t]],
     sent |-> IF qty # 0
              THEN send_qty_order(symbol, IF qty > 0 THEN "sell" ELSE "buy",
                                  IF qty > 0 THEN qty ELSE -qty, ok, "flatten")
              ELSE << >>]

\* maybe_reset_daily_equity; eq is get_equity().
maybe_reset_daily_equity(tr, eq) ==
    IF tr.state.last_reset_date # tr.today
    THEN [tr EXCEPT !.state.start_equity = eq,
                    !.state.last_reset_date = tr.today,
                    !.state.trading_halted = FALSE]
    ELSE tr

\* check_daily_loss_exceeded; eq_reset and eq_now are the two readings of
\* get_equity().
check_daily_loss_exceeded(tr, eq_reset, eq_now) ==
    LET after == maybe_reset_daily_equity(tr, eq_reset)
    IN  [tr |-> after,
         exceeded |-> after.state.start_equity - eq_now >= DAILY_LOSS_LIMIT]

\* The record kept in last by the crypto trader.
QuoteOutcome(op, symbol, path, sent) ==
    [op |-> op, symbol |-> symbol, path |-> path, sent |-> sent]

\* main: maybe_reset_daily_equity(), then the stream delivers quotes.
Main(eq) ==
    /\ pc = "loaded"
    /\ trader' = maybe_reset_daily_equity(trader, eq)
    /\ pc' = "streaming"
    /\ last' = QuoteOutcome("main", "", "", << >>)
    /\ UNCHANGED <<data_gateway, order_manager, order_book, bt, now, accepted_ts,
                   strategy, rng, sim, gens, feed, frame, pa, logger, mm>>

\* The calendar day changes.
Midnight ==
    /\ pc = "streaming"
    /\ trader.today < MaxDays
    /\ trader' = [trader EXCEPT !.today = @ + 1]
    /\ last' = QuoteOutcome("midnight", "", "", << >>)
    /\ UNCHANGED <<data_gateway, order_manager, order_book, bt, pc, now,
                   accepted_ts, strategy, rng, sim, gens, feed, frame, pa, logger, mm>>

\* on_crypto_quote for a quote of q.symbol whose imbalance asks for q.desired,
\* d seconds after the previous step; halted is what the handler reads in
\* state.trading_halted.  When the loss limit is found exceeded the handler
\* sets trading_halted and awaits flatten_all_symbols, whose tasks run next.
on_crypto_quote(q, d, halted) ==
    /\ pc = "streaming"
    /\ now + d <= MaxCryptoTime
    /\ now' = now + d
    /\ IF q.symbol \notin DOMAIN trader.state.symbols
       THEN /\ trader' = trader
            /\ last' = QuoteOutcome("quote", q.symbol, "untracked", << >>)
       ELSE IF halted
       THEN /\ trader' = trader
            /\ last' = QuoteOutcome("quote", q.symbol, "halted", << >>)
       ELSE \E eq_reset \in EquityReadings, eq_now \in EquityReadings :
          LET chk == check_daily_loss_exceeded(trader, eq_reset, eq_now)
              tr  == chk.tr
              sym_state == tr.state.symbols[q.symbol]
          IN  IF chk.exceeded
              THEN /\ trader' = [tr EXCEPT !.state.trading_halted = TRUE,
                                           !.flattening = @ \o SYMBOLS]
                   /\ last' = QuoteOutcome("quote", q.symbol, "halt", << >>)
              ELSE IF q.desired = "none"
              THEN /\ trader' = tr
                   /\ last' = QuoteOutcome("quote", q.symbol, "no signal", << >>)
              ELSE IF now' - sym_state.last_trade_time < COOLDOWN_SECONDS
              THEN /\ trader' = tr
                   /\ last' = QuoteOutcome("quote", q.symbol, "cooldown", << >>)
              ELSE IF q.desired = "flat"
              THEN /\ trader' = tr
                   /\ last' = QuoteOutcome("quote", q.symbol, "flat", << >>)
              ELSE \E budget \in Budgets :
                 IF budget.limit # ""
                 THEN /\ trader' = tr
                      /\ last' = QuoteOutcome("quote", q.symbol,
                                              budget.limit, << >>)
                 ELSE IF budget.notional <= 0
                 THEN /\ trader' = tr
                      /\ last' = QuoteOutcome("quote", q.symbol,
                                              "no notional", << >>)
                 ELSE IF q.desired = sym_state.position_side
                 THEN /\ trader' = tr
                      /\ last' = QuoteOutcome("quote", q.symbol, "no flip", << >>)
                 ELSE \E qty \in PositionReadings, ok_cover \in BOOLEAN,
                         ok_open \in BOOLEAN :
                    LET flip == IF q.desired = "long"
                                THEN flip_to_long(tr, q.symbol, budget.notional,
                                                  qty, ok_cover, ok_open, now')
                                ELSE flip_to_short(tr, q.symbol, budget.notional,
                                                   qty, ok_cover, ok_open, now')
                    IN  /\ trader' = submit_order(flip.tr, flip.sent)
                        /\ last' = QuoteOutcome("quote", q.symbol, "flip",
                                                flip.sent)
    /\ UNCHANGED <<data_gateway, order_manager, order_book, bt, pc, accepted_ts,
                   strategy, rng, sim, gens, feed, frame, pa, logger, mm>>

\* Mutant: the handler goes on although trading is halted.
OnQuote_ignores_halt(q, d) == on_crypto_quote(q, d, FALSE)

\* The stream calls on_crypto_quote(q).
OnQuote(q, d) == on_crypto_quote(q, d, trader.state.trading_halted)

\* flatten_all_symbols: the next task of asyncio.gather, flatten_symbol for
\* the next symbol of SYMBOLS.
FlattenNext(qty, ok) ==
    /\ pc = "streaming"
    /\ trader.flattening # << >>
    /\ LET symbol == Head(trader.flattening)
           flat == flatten_symbol(trader, symbol, qty, ok, now)
       IN  /\ trader' = [submit_order(flat.tr, flat.sent) EXCEPT
                             !.flattening = Tail(@)]
           /\ last' = QuoteOutcome("flatten", symbol, "halt", flat.sent)
    /\ UNCHANGED <<data_gateway, order_manager, order_book, bt, pc, now,
                   accepted_ts, strategy, rng, sim, gens, feed, frame, pa, logger, mm>>

InitCR ==
    /\ data_gateway = MarketDataGateway(<< >>)
    /\ order_manager = OrderManager(Capital, MaxPosition, MaxOrdersPerMin)
    /\ order_book = << >>
    /\ bt = Backtester
    /\ pc = "loaded"
    /\ now = COOLDOWN_SECONDS
    /\ accepted_ts = << >>
    /\ strategy = Strategy
    /\ EngineIdle /\ StreamsIdle /\ frame = NoFrame
    /\ AnalyzerIdle /\ LoggerIdle /\ MarketMakerIdle
    /\ trader = [NoTrader EXCEPT !.today = 1]
    /\ last = QuoteOutcome("init", "", "", << >>)

NextCR ==
    \/ \E eq \in EquityReadings : Main(eq)
    \/ Midnight
    \/ \E symbol \in QuoteSymbols, desired \in Directions, d \in CryptoClockSteps :
          OnQuote([symbol |-> symbol, desired |-> desired], d)
    \/ \E qty \in PositionReadings, ok \in BOOLEAN : FlattenNext(qty, ok)

SpecCR == InitCR /\ [][NextCR]_vars

-----------------------------------------------------------------------------
(* AlpacaMarketMaker.run: one polling cycle per step, against the broker     *)
(***************************************************************************)

\* Python's abs, as run applies it to the position.
abs(n) == IF n < 0 THEN -n ELSE n

\* What get_position can answer: flat, at the hard limit, beyond it either way.
BrokerPositions == {0, 100, 101, -101}

\* The last row of strategy.run, prices in cents; a price of 0 stands for
\* every price the validation refuses (NaN or not positive).
LatestRows ==
    { [bid_price |-> 9990, ask_price |-> 10010, bid_qty |-> 3, ask_qty |-> 3,
       bid_active |-> TRUE, ask_active |-> TRUE],
      [bid_price |-> 9990, ask_price |-> 10010, bid_qty |-> 3, ask_qty |-> 3,
       bid_active |-> TRUE, ask_active |-> FALSE],
      [bid_price |-> 9990, ask_price |-> 10010, bid_qty |-> 3, ask_qty |-> 3,
       bid_active |-> FALSE, ask_active |-> FALSE],
      [bid_price |-> 10000, ask_price |-> 10000, bid_qty |-> 3, ask_qty |-> 3,
       bid_active |-> TRUE, ask_active |-> TRUE],
      [bid_price |-> 0, ask_price |-> 10010, bid_qty |-> 3, ask_qty |-> 3,
       bid_active |-> TRUE, ask_active |-> TRUE],
      [bid_price |-> 9990, ask_price |-> 10010, bid_qty |-> 3, ask_qty |-> 0,
       bid_active |-> TRUE, ask_active |-> TRUE] }

\* An order working at the broker: the cycle that submitted it and its side.
LimitOrder(cycle, side) == [id |-> <<cycle, side>>, side |-> side]

\* cancel_open_orders: the orders still working afterwards.  When list_orders
\* raises nothing is cancelled; an order whose cancel_order raises stays.
cancel_open_orders(working, list_ok, failing) ==
    IF list_ok THEN working \cap failing ELSE working

\* submit_quote: each active side is submitted on its own and a refused
\* submission is only printed; the ids kept are those of this call.
submit_quote(m, cycle, bid_active, ask_active, bid_ok, ask_ok) ==
    LET bid == IF bid_active /\ bid_ok THEN {LimitOrder(cycle, "buy")} ELSE {}
        ask == IF ask_active /\ ask_ok THEN {LimitOrder(cycle, "sell")} ELSE {}
    IN  [m EXCEPT !.working = @ \cup bid \cup ask,
                  !.open_bid_id = IF bid = {} THEN None ELSE cycle,
                  !.open_ask_id = IF ask = {} THEN None ELSE cycle]

\* The validation of the strategy's last row: the sides left active.
validate_quote(latest) ==
    LET bid == /\ latest.bid_active
               /\ latest.bid_price > 0
               /\ latest.bid_qty > 0
        ask == /\ latest.ask_active
               /\ latest.ask_price > 0
               /\ latest.ask_qty > 0
    IN  [bid_active |-> bid,
         ask_active |-> ask /\ ~(bid /\ latest.ask_price <= latest.bid_price)]

\* What one cycle did: the path taken, whether cancel_open_orders was called,
\* the orders it cancelled and the orders submit_quote placed.
CycleOutcome(op, path, cancel_called, cancelled, placed) ==
    [op |-> op, path |-> path, cancel_called |-> cancel_called,
     cancelled |-> cancelled, placed |-> placed]

\* One turn of the loop of run.  reading is get_position's answer (0 when it
\* raises), bar_ok whether get_latest_bar and strategy.run came back.
Cycle(reading, bar_ok, latest, list_ok, failing, bid_ok, ask_ok) ==
    /\ pc = "polling"
    /\ mm.cycle < MaxCycles
    /\ LET cycle == mm.cycle + 1
           m0 == [mm EXCEPT !.position = reading, !.cycle = cycle]
           quote == validate_quote(latest)
           kept == cancel_open_orders(mm.working, list_ok, failing)
           m1 == [m0 EXCEPT !.working = kept]
           m2 == submit_quote(m1, cycle, quote.bid_active, quote.ask_active,
                              bid_ok, ask_ok)
       IN  /\ strategy' = update_context(strategy, reading)
           /\ IF ~bar_ok
                THEN /\ mm' = m0
                     /\ last' = CycleOutcome("cycle", "error", FALSE, {}, {})
                ELSE IF abs(reading) > max_position_risk
                THEN /\ mm' = m1
                     /\ last' = CycleOutcome("cycle", "paused", TRUE,
                                             mm.working \ kept, {})
                ELSE IF quote.bid_active \/ quote.ask_active
                THEN /\ mm' = m2
                     /\ last' = CycleOutcome("cycle", "quoted", TRUE,
                                             mm.working \ kept,
                                             m2.working \ kept)
                ELSE /\ mm' = m1
                     /\ last' = CycleOutcome("cycle", "no quote", TRUE,
                                             mm.working \ kept, {})
    /\ UNCHANGED <<data_gateway, order_manager, order_book, bt, pc, now,
                   accepted_ts, rng, sim, gens, feed, frame, pa, logger,
                   trader>>

InitMM ==
    /\ data_gateway = MarketDataGateway(<< >>)
    /\ order_manager = OrderManager(Capital, MaxPosition, MaxOrdersPerMin)
    /\ order_book = << >>
    /\ bt = Backtester
    /\ pc = "polling"
    /\ now = 0
    /\ accepted_ts = << >>
    /\ strategy = PennyInPennyOutStrategy(1, 50, 80)
    /\ EngineIdle /\ StreamsIdle /\ frame = NoFrame
    /\ AnalyzerIdle /\ LoggerIdle /\ TraderIdle
    /\ mm = AlpacaMarketMaker
    /\ last = CycleOutcome("init", "", FALSE, {}, {})

NextMM ==
    \E reading \in BrokerPositions, bar_ok \in BOOLEAN, latest \in LatestRows,
       list_ok \in BOOLEAN, failing \in SUBSET mm.working,
       bid_ok \in BOOLEAN, ask_ok \in BOOLEAN :
       Cycle(reading, bar_ok, latest, list_ok, failing, bid_ok, ask_ok)

SpecMM == InitMM /\ [][NextMM]_vars

(***************************************************************************)
(* Backtester.run with a RiskGate whose capital is at most the ledger's      *)
(* initial cash, and closes high enough for a few orders to use it up      *)
(***************************************************************************)

\* Closes at which one order of OrderQty costs all, or half, of InitialCash.
HighPrices == {InitialCash \div OrderQty, InitialCash \div (2 * OrderQty)}

\* Initial capitals of the RiskGate: the ledger's cash and half of it.
GateCapitals == {InitialCash, InitialCash \div 2}

InitCash ==
    /\ data_gateway \in {MarketDataGateway(d) : d \in [1..MaxBars -> HighPrices]}
    /\ order_manager \in {OrderManager(c, MaxPosition, MaxOrdersPerMin) :
                             c \in GateCapitals}
    /\ order_book = << >>
    /\ bt = Backtester
    /\ pc = "loop"
    /\ now = 0
    /\ accepted_ts = << >>
    /\ strategy = Strategy
    /\ EngineIdle /\ StreamsIdle /\ frame = NoFrame
    /\ AnalyzerIdle /\ LoggerIdle /\ TraderIdle /\ MarketMakerIdle
    /\ last = NoOutcome

SpecCash == InitCash /\ [][Next]_vars

(***************************************************************************)
(* One MarketDataGateway shared by Backtester.run, by generators of stream() *)
(* and by direct callers, with no reset                                    *)
(***************************************************************************)

\* Who was handed a row: Backtester.run, a direct call of __next__ or
\* get_next, or the gen-th generator object of stream().
Taker(kind, gen) == [kind |-> kind, gen |-> gen]

\* feed with the row delivered, if one was, and who took it.
Deliver(f, status, row, taker) ==
    IF status = "row"
    THEN [f EXCEPT !.rows = Append(@, row), !.takers = Append(@, taker)]
    ELSE f

ShareFrame ==
    UNCHANGED <<order_manager, order_book, bt, pc, now, accepted_ts, strategy,
                rng, sim, frame, pa, logger, trader, mm>>

\* Some other code calls next(gateway).
Share_next ==
    /\ data_gateway' = __next__(data_gateway).gw
    /\ feed' = Deliver(feed, __next__(data_gateway).status,
                       __next__(data_gateway).row, Taker("__next__", 0))
    /\ last' = GwOutcome("__next__", __next__(data_gateway).status,
                         __next__(data_gateway).row, 0)
    /\ UNCHANGED gens
    /\ ShareFrame

\* Some other code calls gateway.get_next().
Share_get_next ==
    /\ data_gateway' = get_next(data_gateway).gw
    /\ feed' = Deliver(feed, get_next(data_gateway).status,
                       get_next(data_gateway).row, Taker("get_next", 0))
    /\ last' = GwOutcome("get_next", get_next(data_gateway).status,
                         get_next(data_gateway).row, 0)
    /\ UNCHANGED gens
    /\ ShareFrame

\* next() on the i-th generator object of stream().
Share_resume(i) ==
    /\ i \in DOMAIN gens
    /\ LET out == resume(gens[i], data_gateway)
       IN  /\ gens' = [gens EXCEPT ![i] = out.gen]
           /\ data_gateway' = out.gw
           /\ feed' = Deliver(feed, out.status, out.row, Taker("stream", i))
           /\ last' = GwOutcome("next(stream)", out.status, out.row, i)
    /\ ShareFrame

\* One iteration of the loop of Backtester.run: its generator hands it the
\* next row, whose Close is the tick's price.
RunTick(signal, d, g, r, u) ==
    /\ pc = "loop"
    /\ has_next(data_gateway)
    /\ now + d + g <= MaxTime
    /\ LET row    == __next__(data_gateway).row
           price  == row.Close
           marked == _update_equity(
                        [bt EXCEPT !.market_df = Append(@, row)], price)
           order  == Order(Len(bt.trades), IF signal = 1 THEN "buy" ELSE "sell",
                           price, OrderQty)
           t_chk  == now + d
           t_rec  == t_chk + g
           v      == validate(order_manager, order, t_chk, t_rec)
           result == simulate_execution(order, r, u)
       IN  /\ data_gateway' = __next__(data_gateway).gw
           /\ feed' = Deliver(feed, "row", row, Taker("run", 0))
           /\ IF signal = 0
              THEN /\ bt' = marked
                   /\ now' = t_chk
                   /\ UNCHANGED <<order_manager, order_book, accepted_ts>>
                   /\ last' = Outcome("tick", signal, price, NoOrder, "none", "",
                                      << >>, t_chk, NoResult)
              ELSE IF ~v.ok
              THEN /\ bt' = marked
                   /\ now' = t_chk
                   /\ order_manager' = v.om
                   /\ UNCHANGED <<order_book, accepted_ts>>
                   /\ last' = Outcome("tick", signal, price, order, "rejected", v.msg,
                                      v.evaluated, t_chk, NoResult)
              ELSE /\ bt' = _execute_order(marked, order, result, t_rec)
                   /\ now' = t_rec
                   /\ order_manager' = v.om
                   /\ order_book' = add_order(order_book, order)
                   /\ accepted_ts' = Append(accepted_ts, t_rec)
                   /\ last' = Outcome("tick", signal, price, order, "accepted", v.msg,
                                      v.evaluated, t_chk, result)
    /\ UNCHANGED <<pc, strategy, rng, sim, gens, frame, pa, logger, trader, mm>>

\* Mutant: the second run iterates the gateway itself, whose __iter__ rewinds.
RunAgain_rewinds ==
    /\ pc = "returned"
    /\ pc' = "loop"
    /\ data_gateway' = __iter__(data_gateway)
    /\ last' = [NoOutcome EXCEPT !.op = "run"]
    /\ UNCHANGED <<order_manager, order_book, bt, now, accepted_ts,
                   strategy, rng, sim, gens, feed, frame,
                   pa, logger, trader, mm>>

\* run() is called again on the same Backtester: the for statement asks the
\* gateway for a new generator of stream(), with reset left at False.
RunAgain ==
    /\ pc = "returned"
    /\ pc' = "loop"
    /\ last' = [NoOutcome EXCEPT !.op = "run"]
    /\ UNCHANGED <<data_gateway, order_manager, order_book, bt, now, accepted_ts,
                   strategy, rng, sim, gens, feed, frame,
                   pa, logger, trader, mm>>

InitShare ==
    /\ \E n \in 0..MaxBars :
          data_gateway = MarketDataGateway([i \in 1..n |-> Bar(i)])
    /\ order_manager = OrderManager(Capital, MaxPosition, MaxOrdersPerMin)
    /\ order_book = << >>
    /\ bt = Backtester
    /\ pc = "loop"
    /\ now = 0
    /\ accepted_ts = << >>
    /\ strategy = Strategy
    /\ EngineIdle /\ StreamsIdle /\ frame = NoFrame
    /\ AnalyzerIdle /\ LoggerIdle /\ TraderIdle /\ MarketMakerIdle
    /\ last = NoOutcome

\* The ticks of the shared run: hold or buy, filled in full or cancelled.
ShareSignals == {0, 1}
ShareDraws == {5, 95}

NextShare ==
    \/ \E signal \in ShareSignals, g \in TickReadGap, r \in ShareDraws, u \in UDraws :
          RunTick(signal, 0, g, r, u)
    \/ RunReturn
    \/ RunAgain
    \/ Call_stream(FALSE)
    \/ \E i \in 1..MaxGens : Share_resume(i)
    \/ Share_next
    \/ Share_get_next

SpecShare == InitShare /\ [][NextShare]_vars

(***************************************************************************)
(* Backtester.run driven by a MovingAverageStrategy of any accepted windows *)
(* up to MaxLookback                                                       *)
(***************************************************************************)

InitWarm ==
    /\ data_gateway \in {MarketDataGateway(d) : d \in [1..MaxBars -> Prices]}
    /\ order_manager = OrderManager(Capital, MaxPosition, MaxOrdersPerMin)
    /\ order_book = << >>
    /\ bt = Backtester
    /\ pc = "loop"
    /\ now = 0
    /\ accepted_ts = << >>
    /\ strategy \in {MovingAverageStrategy(w[1], w[2]) :
                        w \in {v \in (1..MaxLookback) \X (1..MaxLookback) : v[1] < v[2]}}
    /\ EngineIdle /\ StreamsIdle /\ frame = NoFrame
    /\ AnalyzerIdle /\ LoggerIdle /\ TraderIdle /\ MarketMakerIdle
    /\ last = NoOutcome

SpecWarm == InitWarm /\ [][NextMA]_vars

(***************************************************************************)
(* PennyInPennyOutStrategy: the quote columns.  Prices, tick_size,           *)
(* max_spread and max_quote_offset are in one price unit, a fraction of    *)
(* a cent; the fair value after the fade and the edge before the clamp are *)
(* given row by row, as the float arithmetic of the indicators leaves them *)
(***************************************************************************)

\* Fair values after the fade, around 100 ticks of 4 units and of 1 unit.
FairValues == 400..408

\* Edges before the clamp: none, less than a tick, a tick and more, too wide.
EdgeValues == {0, 3, 4, 6, 30}

\* tick_size, max_spread and max_quote_offset of the strategies constructed;
\* with the last one the tick is wider than the upper clamp of the edge.
QuoteConfigs ==
    { [tick_size |-> 1, max_spread |-> 50, max_quote_offset |-> 30],
      [tick_size |-> 4, max_spread |-> 8,  max_quote_offset |-> 24],
      [tick_size |-> 4, max_spread |-> 40, max_quote_offset |-> 4],
      [tick_size |-> 4, max_spread |-> 4,  max_quote_offset |-> 24] }

\* PennyInPennyOutStrategy.__init__ with the parameters of the quote columns
\* as well, after update_context(position).
QuotingStrategy(config, inventory_soft_limit, base_qty, position) ==
    LET st == PennyInPennyOutStrategy(config.tick_size, inventory_soft_limit,
                                      VolHaltDefault)
    IN  [tick_size            |-> st.tick_size,
         inventory_soft_limit |-> st.inventory_soft_limit,
         vol_halt             |-> st.vol_halt,
         current_position     |-> position,
         max_spread           |-> config.max_spread,
         max_quote_offset     |-> config.max_quote_offset,
         base_qty             |-> IF base_qty < 1 THEN 1 ELSE base_qty]

\* Series.clip(lower, upper) on one value: numpy takes the maximum with
\* lower, then the minimum with upper.
clip(v, lower, upper) ==
    LET raised == IF v < lower THEN lower ELSE v
    IN  IF raised > upper THEN upper ELSE raised

\* _round_to_tick: (price / tick_size).round() * tick_size.  round goes to the
\* nearest integer; where the exact quotient lies half way the float quotient
\* may sit on either side of it, and tie_up tells which neighbour comes out.
_round_to_tick(st, price, tie_up) ==
    LET q == price \div st.tick_size
        r == price % st.tick_size
    IN  IF 2 * r < st.tick_size THEN q * st.tick_size
        ELSE IF 2 * r > st.tick_size THEN (q + 1) * st.tick_size
        ELSE IF tie_up THEN (q + 1) * st.tick_size
        ELSE q * st.tick_size

\* Mutant: the edge is not raised to one tick.
clamp_edge_no_floor(st, edge) ==
    LET upper == IF st.max_spread < 2 * st.max_quote_offset
                 THEN st.max_spread \div 2 ELSE st.max_quote_offset
    IN  IF edge > upper THEN upper ELSE edge

\* edge.clip(lower=tick_size, upper=min(max_spread / 2, max_quote_offset));
\* max_spread is even in every configuration.
clamp_edge(st, edge) ==
    LET upper == IF st.max_spread < 2 * st.max_quote_offset
                 THEN st.max_spread \div 2 ELSE st.max_quote_offset
    IN  clip(edge, st.tick_size, upper)

\* int(max(1, base_qty * (1 + lean / inventory_soft_limit))), lean being the
\* inventory on the side that is to be worked off.
quote_qty(st, lean) ==
    LET qty == (st.base_qty * (st.inventory_soft_limit + lean))
                   \div st.inventory_soft_limit
    IN  IF qty < 1 THEN 1 ELSE qty

\* generate_signals with its quote columns: those of the flags, and bid_price,
\* ask_price, bid_qty, ask_qty, edge being the clamped edge of each row.
PennyInPennyOut_quotes(st, flags, fair_with_fade, raw_edge, ties) ==
    LET rows == 1..Len(flags.Close)
        edge == [t \in rows |-> clamp_edge(st, raw_edge[t])]
        pos  == st.current_position
    IN  [Close      |-> flags.Close,
         volatility |-> flags.volatility,
         signal     |-> flags.signal,
         bid_active |-> flags.bid_active,
         ask_active |-> flags.ask_active,
         edge       |-> edge,
         bid_price  |-> [t \in rows |->
                            _round_to_tick(st, fair_with_fade[t] - edge[t] - st.tick_size,
                                           ties[t][1])],
         ask_price  |-> [t \in rows |->
                            _round_to_tick(st, fair_with_fade[t] + edge[t] + st.tick_size,
                                           ties[t][2])],
         bid_qty    |-> [t \in rows |-> quote_qty(st, IF pos < 0 THEN -pos ELSE 0)],
         ask_qty    |-> [t \in rows |-> quote_qty(st, IF pos > 0 THEN pos ELSE 0)]]

\* strategy.run(df) of a PennyInPennyOutStrategy, every column of the quote.
RunQuotes(rolling_std, fair_with_fade, raw_edge, ties) ==
    /\ pc = "constructed"
    /\ "signal" \notin DOMAIN frame
    /\ frame' = PennyInPennyOut_quotes(strategy,
                    PennyInPennyOut_run(strategy, frame.Close, rolling_std),
                    fair_with_fade, raw_edge, ties)
    /\ last' = StrategyOutcome("run", "PennyInPennyOutStrategy", << >>, FALSE)
    /\ UNCHANGED <<data_gateway, order_manager, order_book, bt, pc, now,
                   accepted_ts, strategy, rng, sim, gens, feed,
                   pa, logger, trader, mm>>

InitQuote ==
    /\ data_gateway = MarketDataGateway(<< >>)
    /\ order_manager = OrderManager(Capital, MaxPosition, MaxOrdersPerMin)
    /\ order_book = << >>
    /\ bt = Backtester
    /\ pc = "constructed"
    /\ now = 0
    /\ accepted_ts = << >>
    /\ strategy \in {QuotingStrategy(config, soft, 3, position) :
                        config \in QuoteConfigs, soft \in SoftLimits,
                        position \in -MaxInventory..MaxInventory}
    /\ EngineIdle /\ StreamsIdle
    /\ AnalyzerIdle /\ LoggerIdle /\ TraderIdle /\ MarketMakerIdle
    /\ frame = [Close |-> <<100>>]
    /\ last = StrategyOutcome("construct", "PennyInPennyOutStrategy", << >>, FALSE)

NextQuote ==
    \E rolling_std \in [1..Len(frame.Close) -> VolLevels],
       fair_with_fade \in [1..Len(frame.Close) -> FairValues],
       raw_edge \in [1..Len(frame.Close) -> EdgeValues],
       ties \in [1..Len(frame.Close) -> BOOLEAN \X BOOLEAN] :
          RunQuotes(rolling_std, fair_with_fade, raw_edge, ties)

SpecQuote == InitQuote /\ [][NextQuote]_vars

(***************************************************************************)
(* OrderManager.validate driven directly, with any order at any time *)

ValidateCall(order, d, g) ==
    /\ now + d + g <= MaxTime
    /\ LET t_chk == now + d
           t_rec == t_chk + g
           v     == validate(order_manager, order, t_chk, t_rec)
       IN  /\ order_manager' = v.om
           /\ now' = IF v.ok THEN t_rec ELSE t_chk
           /\ accepted_ts' = IF v.ok THEN Append(accepted_ts, t_rec) ELSE accepted_ts
           /\ last' = Outcome("validate", 0, 0, order,
                              IF v.ok THEN "accepted" ELSE "rejected",
                              v.msg, v.evaluated, t_chk, NoResult)
    /\ UNCHANGED <<data_gateway, order_book, bt, pc, strategy,
                   rng, sim, gens, feed, frame,
                   pa, logger, trader, mm>>

InitOM ==
    /\ data_gateway = MarketDataGateway(<< >>)
    /\ order_manager = OrderManager(Capital, MaxPosition, MaxOrdersPerMin)
    /\ order_book = << >>
    /\ bt = Backtester
    /\ pc = "loop"
    /\ now = 0
    /\ accepted_ts = << >>
    /\ strategy = Strategy
    /\ EngineIdle /\ StreamsIdle /\ frame = NoFrame
    /\ AnalyzerIdle /\ LoggerIdle /\ TraderIdle /\ MarketMakerIdle
    /\ last = NoOutcome

NextOM ==
    \E side \in OrderSides, price \in OrderPrices, qty \in OrderQtys,
       d \in ClockSteps, g \in ReadGap :
        ValidateCall(Order(0, side, price, qty), d, g)

SpecOM == InitOM /\ [][NextOM]_vars

----------------------------------------------------------------------------
(* Properties *)

\* C1: after every tick of Backtester.run the value appended to the equity
\* curve is cash + position * close of that tick's bar, with the ledger's cash
\* and position as they are when the tick marks to market, and also as they
\* are when the tick ends.
C1_EquityMarkedToMarket ==
    [][last'.op = "tick" =>
        LET t     == data_gateway'.pointer
            close == data_gateway.data[t]
        IN  /\ Len(bt'.equity_curve) = t
            /\ Len(bt.equity_curve) = t - 1
            /\ bt'.equity_curve[t] = bt.cash + bt.position * close
            /\ bt'.equity_curve[t] = bt'.cash + bt'.position * close]_vars

\* A tick that marked a nonzero position to a close other than the previous
\* one and then settled a partial fill.
C1_Witness ==
    /\ last.op = "tick"
    /\ last.verdict = "accepted"
    /\ last.result.status = "partial"
    /\ bt.position # 0
    /\ Len(bt.equity_curve) >= 2
    /\ bt.equity_curve[Len(bt.equity_curve)] # bt.equity_curve[Len(bt.equity_curve) - 1]
    /\ bt.market_df[Len(bt.market_df)] # bt.market_df[Len(bt.market_df) - 1]

\* C2: the ledger's position is within [-max_position, max_position] right
\* after every accepted order, whatever the fills were.
C2_LedgerPositionWithinBounds ==
    (last.op = "tick" /\ last.verdict = "accepted") =>
        /\ bt.position <= order_manager.max_position
        /\ bt.position >= -order_manager.max_position

\* C3: the position tracked by OrderManager stays within
\* [-max_position, max_position]: at most max_position after an accepted buy,
\* at least -max_position after an accepted sell, and so in every state.
C3_TrackedPositionWithinBounds ==
    /\ order_manager.current_position <= order_manager.max_position
    /\ order_manager.current_position >= -order_manager.max_position
    /\ (last.verdict = "accepted" /\ last.order.side = "buy") =>
           order_manager.current_position <= order_manager.max_position
    /\ (last.verdict = "accepted" /\ last.order.side = "sell") =>
           order_manager.current_position >= -order_manager.max_position

\* An accepted sell that took the tracked position below zero, to within one
\* smallest order of the short bound.
C3_Witness ==
    /\ last.op = "validate"
    /\ last.verdict = "accepted"
    /\ last.order.side = "sell"
    /\ order_manager.current_position < 0
    /\ order_manager.current_position - 5 < -order_manager.max_position

\* The recorded timestamps younger than RateWindow at time t.
RecentCount(ts, t) == Cardinality({i \in DOMAIN ts : t - ts[i] < RateWindow})

\* C4: with a non-decreasing clock, no trailing 60-second window (the instants
\* w with 0 <= w_end - w < 60) holds more than max_orders_per_min accepted
\* orders.
C4_RateLimit ==
    \A w_end \in 0..MaxTime :
        Cardinality({i \in DOMAIN accepted_ts :
                        accepted_ts[i] <= w_end /\ w_end - accepted_ts[i] < RateWindow})
            <= order_manager.max_orders_per_min

\* More orders were accepted than fit in one window, the latest one right now,
\* with the window that ends now full and holding timestamps of different ages.
C4_Witness ==
    /\ last.op = "validate"
    /\ last.verdict = "accepted"
    /\ Len(accepted_ts) > order_manager.max_orders_per_min
    /\ RecentCount(accepted_ts, now) = order_manager.max_orders_per_min
    /\ \E i \in DOMAIN accepted_ts : accepted_ts[i] # now /\ now - accepted_ts[i] < RateWindow

\* C5: a tick whose order validate rejects leaves the OrderManager (capital,
\* current_position, order_timestamps) and the ledger's cash and position
\* exactly as they were.
C5_RejectionMutatesNothing ==
    [][last'.verdict = "rejected" =>
        /\ order_manager'.capital = order_manager.capital
        /\ order_manager'.current_position = order_manager.current_position
        /\ order_manager'.order_timestamps = order_manager.order_timestamps
        /\ order_manager' = order_manager
        /\ bt'.cash = bt.cash
        /\ bt'.position = bt.position]_vars

\* An order rejected by the rate check, which rewrote order_timestamps, on a
\* ledger that already holds a position.
C5_Witness ==
    /\ last.op = "tick"
    /\ last.verdict = "rejected"
    /\ last.msg = "Order rate limit exceeded"
    /\ Len(order_manager.order_timestamps) > 0
    /\ bt.position # 0
    /\ bt.cash # InitialCash

\* C6 as stated: the reason of a rejection is one of "insufficient capital",
\* "position limit exceeded", "order rate limit exceeded".
C6_ReasonsAsStated ==
    last.verdict = "rejected" =>
        last.msg \in {"insufficient capital", "position limit exceeded",
                      "order rate limit exceeded"}

\* C6 amended: a rejection returns one of "Not enough capital", "Position limit
\* exceeded", "Order rate limit exceeded", and the check it names did fail on
\* the state the call found; a buy of notional 2000 against capital 1000 is
\* rejected with "Not enough capital".
C6_RejectionReasons ==
    [][last'.op = "validate" =>
        LET o  == last'.order
            m  == last'.msg
            om == order_manager
        IN  /\ last'.verdict = "rejected" =>
                /\ m \in {"Not enough capital", "Position limit exceeded",
                          "Order rate limit exceeded"}
                /\ m = "Not enough capital" =>
                       o.side = "buy" /\ o.price * o.qty > om.capital
                /\ m = "Position limit exceeded" =>
                       \/ o.side = "buy" /\ om.current_position + o.qty > om.max_position
                       \/ o.side = "sell" /\ om.current_position - o.qty < -om.max_position
                /\ m = "Order rate limit exceeded" =>
                       RecentCount(om.order_timestamps, last'.t_call) >= om.max_orders_per_min
            /\ (o.side = "buy" /\ o.price * o.qty = 2000 /\ om.capital = 1000) =>
                   last'.verdict = "rejected" /\ m = "Not enough capital"]_vars

\* The buy of notional 2000 against capital 1000, rejected.
C6_Witness ==
    /\ last.op = "validate"
    /\ last.verdict = "rejected"
    /\ last.msg = "Not enough capital"
    /\ last.order.side = "buy"
    /\ last.order.price * last.order.qty = 2000
    /\ order_manager.capital = 1000

\* C7: validate checks capital, then the position limit, then the order rate,
\* and stops at the first failure: the reason is that of the earliest failing
\* check and no later check is evaluated (in particular order_timestamps is not
\* rewritten unless the rate check is reached).
C7_ChecksInOrder ==
    [][last'.op = "validate" =>
        LET o  == last'.order
            om == order_manager
            capFails  == o.side = "buy" /\ o.price * o.qty > om.capital
            posFails  == \/ o.side = "buy" /\ om.current_position + o.qty > om.max_position
                         \/ o.side = "sell" /\ om.current_position - o.qty < -om.max_position
            rateFails == RecentCount(om.order_timestamps, last'.t_call) >= om.max_orders_per_min
        IN  /\ capFails =>
                /\ last'.verdict = "rejected"
                /\ last'.msg = "Not enough capital"
                /\ last'.evaluated = <<"capital">>
                /\ order_manager'.order_timestamps = om.order_timestamps
            /\ (~capFails /\ posFails) =>
                /\ last'.verdict = "rejected"
                /\ last'.msg = "Position limit exceeded"
                /\ last'.evaluated = <<"capital", "position">>
                /\ order_manager'.order_timestamps = om.order_timestamps
            /\ (~capFails /\ ~posFails /\ rateFails) =>
                /\ last'.verdict = "rejected"
                /\ last'.msg = "Order rate limit exceeded"
                /\ last'.evaluated = <<"capital", "position", "rate">>
            /\ (~capFails /\ ~posFails /\ ~rateFails) =>
                /\ last'.verdict = "accepted"
                /\ last'.evaluated = <<"capital", "position", "rate">>]_vars

\* A buy that fails the capital and the position check is rejected for
\* capital, and a timestamp the rate check would have discarded is still there.
C7_Witness ==
    /\ last.op = "validate"
    /\ last.verdict = "rejected"
    /\ last.msg = "Not enough capital"
    /\ last.evaluated = <<"capital">>
    /\ last.order.side = "buy"
    /\ order_manager.current_position + last.order.qty > order_manager.max_position
    /\ \E i \in DOMAIN order_manager.order_timestamps :
           last.t_call - order_manager.order_timestamps[i] >= RateWindow

\* C8: a buy passes the capital check iff price * qty <= capital at the time
\* of the call; a sell is never rejected for capital.
C8_CapitalCheck ==
    [][last'.op = "validate" =>
        LET o == last'.order
            passed == Len(last'.evaluated) > 1 /\ last'.msg # "Not enough capital"
        IN  /\ o.side = "buy" => (passed <=> o.price * o.qty <= order_manager.capital)
            /\ o.side = "sell" => passed]_vars

\* A buy whose notional equals the capital was approved and used it up, or a
\* sell got past the capital check with no capital left.
C8_Witness ==
    /\ last.op = "validate"
    /\ order_manager.capital = 0
    /\ \/ /\ last.verdict = "accepted"
          /\ last.order.side = "buy"
          /\ last.order.price * last.order.qty = Capital
       \/ /\ last.order.side = "sell"
          /\ Len(last.evaluated) > 1

\* C9: an approval records exactly one new timestamp and applies the order's
\* delta: a buy adds qty to current_position and takes price * qty from
\* capital, a sell takes qty from current_position and gives price * qty back
\* to capital.
C9_ApprovalAppliesDelta ==
    [][(last'.op = "validate" /\ last'.verdict = "accepted") =>
        LET o  == last'.order
            om == order_manager
            kept == SelectSeq(om.order_timestamps,
                              LAMBDA t : last'.t_call - t < RateWindow)
        IN  /\ Len(order_manager'.order_timestamps) = Len(kept) + 1
            /\ SubSeq(order_manager'.order_timestamps, 1, Len(kept)) = kept
            /\ o.side = "buy" =>
                /\ order_manager'.current_position = om.current_position + o.qty
                /\ order_manager'.capital = om.capital - o.price * o.qty
            /\ o.side = "sell" =>
                /\ order_manager'.current_position = om.current_position - o.qty
                /\ order_manager'.capital = om.capital + o.price * o.qty]_vars

\* C10: a filled or partial execution of quantity f at the order's price p
\* changes the ledger by exactly cash -= p * f, position += f for a buy and
\* cash += p * f, position -= f for a sell, and appends exactly one trade
\* {timestamp, side, price p, qty f, status}.
C10_SettleAppliesFill ==
    [][(last'.op = "tick" /\ last'.verdict = "accepted"
            /\ last'.result.status \in {"filled", "partial"}) =>
        LET o == last'.order
            f == last'.result.filled_qty
            p == o.price
            n == Len(bt.trades)
        IN  /\ o.side = "buy" =>
                bt'.cash = bt.cash - p * f /\ bt'.position = bt.position + f
            /\ o.side = "sell" =>
                bt'.cash = bt.cash + p * f /\ bt'.position = bt.position - f
            /\ Len(bt'.trades) = n + 1
            /\ SubSeq(bt'.trades, 1, n) = bt.trades
            /\ bt'.trades[n + 1] =
                   [timestamp |-> now', side |-> o.side, price |-> p, qty |-> f,
                    status |-> last'.result.status]]_vars

\* A sell settled by a partial fill after an earlier trade.
C10_Witness ==
    /\ last.op = "tick"
    /\ last.verdict = "accepted"
    /\ last.result.status = "partial"
    /\ last.result.filled_qty < last.order.qty
    /\ last.order.side = "sell"
    /\ Len(bt.trades) >= 2

\* C11: on a tick whose order validate rejects, the order reaches neither the
\* order book nor simulate_execution, no trade is appended, the ledger's cash
\* and position stay as they were, the tick's equity entry (cash + position *
\* close) is still appended, and the loop goes on with the next bar: the
\* pointer has advanced by one and the order is not validated a second time.
C11_RejectedTickSkipsExecution ==
    [][(last'.op = "tick" /\ last'.verdict = "rejected") =>
          /\ last'.result = NoResult
          /\ order_book' = order_book
          /\ bt'.trades = bt.trades
          /\ bt'.cash = bt.cash
          /\ bt'.position = bt.position
          /\ bt'.equity_curve =
                 Append(bt.equity_curve, bt.cash + bt.position * last'.price)
          /\ data_gateway'.pointer = data_gateway.pointer + 1
          /\ pc' = "loop"
          /\ order_manager'.capital = order_manager.capital
          /\ order_manager'.current_position = order_manager.current_position
          /\ accepted_ts' = accepted_ts]_vars

\* C11 witness: a rejected tick that followed a fill, so that the ledger holds
\* a position an execution would have changed.
C11_Witness ==
    /\ last.op = "tick"
    /\ last.verdict = "rejected"
    /\ bt.position # 0
    /\ Len(bt.trades) > 0


\* C12: Backtester.run appends exactly one equity-curve entry per bar the feed
\* has yielded, whatever the tick did (hold, rejection, fill, partial fill,
\* cancellation), and when run has returned the equity curve has as many
\* entries as the feed has bars.
C12_OneEquityEntryPerBar ==
    /\ Len(bt.equity_curve) = data_gateway.pointer
    /\ Len(bt.equity_curve) = Len(bt.market_df)
    /\ pc = "returned" => Len(bt.equity_curve) = data_gateway.length

\* C12 witness: a finished run over a non-empty feed in which some tick traded
\* and some tick did not.
C12_Witness ==
    /\ pc = "returned"
    /\ data_gateway.length > 0
    /\ Len(bt.equity_curve) = data_gateway.length
    /\ Len(bt.trades) > 0
    /\ Len(bt.trades) < data_gateway.length


\* The rows of close on which the strategy's signal is not 0.
Crossings(st, close) ==
    {t \in 1..Len(close) : run(st, close).signal[t] # 0}

SideOf(signal) == IF signal = 1 THEN "buy" ELSE "sell"

\* C13 as stated: after a run with a MovingAverageStrategy there are as many
\* trades as crossings, and the first trade's side is the direction of the
\* first crossing.
C13_TradesMatchCrossings ==
    pc = "returned" =>
        LET X   == Crossings(strategy, bt.market_df)
            sig == run(strategy, bt.market_df).signal
        IN  /\ Len(bt.trades) = Cardinality(X)
            /\ X # {} =>
                   /\ Len(bt.trades) > 0
                   /\ bt.trades[1].side =
                          SideOf(sig[CHOOSE t \in X : \A x \in X : t <= x])

\* C13 amended: the trade log corresponds one-to-one and in order with the
\* crossings whose order was approved and then filled or partially filled:
\* such a tick appends exactly one trade, with the side of its signal, every
\* other tick (hold, rejected order, cancelled execution) leaves the log as it
\* is, and so there are at most as many trades as crossings.
C13_TradesMatchExecutedCrossings ==
    [][last'.op = "tick" =>
          LET traded == /\ last'.signal # 0
                        /\ last'.verdict = "accepted"
                        /\ last'.result.status \in {"filled", "partial"}
          IN  /\ last'.signal = LatestSignal(strategy, bt'.market_df)
              /\ IF traded
                 THEN /\ Len(bt'.trades) = Len(bt.trades) + 1
                      /\ SubSeq(bt'.trades, 1, Len(bt.trades)) = bt.trades
                      /\ bt'.trades[Len(bt'.trades)].side = SideOf(last'.signal)
                 ELSE bt'.trades = bt.trades
              /\ Len(bt'.trades) <= Cardinality(Crossings(strategy, bt'.market_df))]_vars

\* C13 witness: a finished run with a crossing that traded and a crossing that
\* did not.
C13_Witness ==
    /\ pc = "returned"
    /\ Len(bt.trades) > 0
    /\ Len(bt.trades) < Cardinality(Crossings(strategy, bt.market_df))


\* C14 as stated: a partial fill's quantity is a fraction of the ordered
\* quantity strictly between 0.1 and 0.9.
C14_PartialFractionInside ==
    (last.op = "simulate_execution" /\ last.result.status = "partial") =>
        /\ 10 * last.result.filled_qty > last.order.qty
        /\ 10 * last.result.filled_qty < 9 * last.order.qty

\* C14 amended: the draw r decides the outcome: r < 0.70 gives "filled" with
\* the ordered quantity, 0.70 <= r < 0.90 gives "partial" with the integer part
\* of u * qty for a second draw u in [0.1, 0.9] (so at most 0.9 * qty, and
\* possibly less than 0.1 * qty), r >= 0.90 gives "cancelled" with 0; always
\* 0 <= filled_qty <= qty, and r = 0.05 on 10 units fills 10.
C14_DrawToOutcome ==
    [][last'.op = "simulate_execution" =>
          LET r   == rng.stream[rng.index + 1]
              qty == last'.order.qty
              res == last'.result
          IN  /\ res.order_id = last'.order.order_id
              /\ r < 70 =>
                     /\ res.status = "filled"
                     /\ res.filled_qty = qty
                     /\ rng'.index = rng.index + 1
              /\ (r >= 70 /\ r < 90) =>
                     /\ res.status = "partial"
                     /\ rng'.index = rng.index + 2
                     /\ \E u \in 10..90 :
                            /\ 100 * (u - 10) = 80 * rng.stream[rng.index + 2]
                            /\ res.filled_qty = (qty * u) \div 100
                     /\ 10 * res.filled_qty <= 9 * qty
              /\ r >= 90 =>
                     /\ res.status = "cancelled"
                     /\ res.filled_qty = 0
                     /\ rng'.index = rng.index + 1
              /\ res.filled_qty >= 0
              /\ res.filled_qty <= qty
              /\ (r = 5 /\ qty = 10) => res.filled_qty = 10]_vars

\* C14 witness: a partial fill whose quantity the truncation has taken below a
\* tenth of the order.
C14_Witness ==
    /\ last.op = "simulate_execution"
    /\ last.result.status = "partial"
    /\ 10 * last.result.filled_qty < last.order.qty

\* C15: two engines given the same seed and the same orders return the same
\* sequence of results, whatever else in the process draws random numbers.
C15_SameSeedSameFills ==
    (sim.turn = 2 /\ Len(sim.fills[2]) = Len(sim.orders)) =>
        sim.fills[1] = sim.fills[2]


\* C16 as stated: after every call of validate, whatever its outcome,
\* order_timestamps holds no entry 60 seconds or more older than the time of
\* the call.
C16_NoStaleTimestampAfterAnyCall ==
    last.op = "validate" =>
        \A i \in DOMAIN order_manager.order_timestamps :
            last.t_call - order_manager.order_timestamps[i] < 60

\* C16 amended: after a call of validate that reached the rate check (the
\* order was approved, or rejected for the order rate) order_timestamps holds
\* no entry 60 seconds or more older than the time of the call; a call
\* rejected by the capital or the position check leaves order_timestamps as
\* it was, entries of any age included.
C16_NoStaleTimestampAfterRateCheck ==
    [][last'.op = "validate" =>
          IF \E k \in DOMAIN last'.evaluated : last'.evaluated[k] = "rate"
          THEN \A i \in DOMAIN order_manager'.order_timestamps :
                   last'.t_call - order_manager'.order_timestamps[i] < 60
          ELSE order_manager'.order_timestamps = order_manager.order_timestamps]_vars

\* C16 witness: a call that reached the rate check and discarded an entry.
C16_Witness ==
    /\ last.op = "validate"
    /\ \E k \in DOMAIN last.evaluated : last.evaluated[k] = "rate"
    /\ Len(order_manager.order_timestamps) > 0
    /\ Len(accepted_ts) >
           Len(order_manager.order_timestamps)
    /\ \A i \in DOMAIN order_manager.order_timestamps :
           last.t_call - order_manager.order_timestamps[i] < 60


\* C17: the gateway holds the rows of the file in timestamp order and
\* delivers them one at a time in that order, each exactly once since the
\* latest rewind; on an exhausted gateway __next__ raises StopIteration,
\* get_next returns None, has_next is False and a generator of stream ends,
\* the pointer staying where it is; a generator that has ended keeps raising
\* StopIteration; the pointer is always within [0, length].
C17_DeliversInOrderThenEnds ==
    [][LET gw       == data_gateway
           out      == last'
           gen      == gens[out.gen]
           rewinds  == out.op \in {"reset", "__iter__"}
                          \/ (out.op = "next(stream)" /\ gen.state = "created" /\ gen.reset)
           delivers == out.op \in {"__next__", "get_next"}
                          \/ (out.op = "next(stream)" /\ gen.state # "done")
       IN  /\ data_gateway'.data = gw.data
           /\ data_gateway'.length = Len(gw.data)
           /\ {gw.data[i] : i \in DOMAIN gw.data} = {feed.csv[i] : i \in DOMAIN feed.csv}
           /\ \A i, j \in DOMAIN gw.data :
                  i < j => gw.data[i].Datetime < gw.data[j].Datetime
           /\ data_gateway'.pointer \in 0..gw.length
           /\ feed'.rows = SubSeq(gw.data, 1, data_gateway'.pointer)
           /\ (out.op = "has_next") =>
                  out.status = (IF gw.pointer = gw.length THEN "False" ELSE "True")
           /\ (delivers /\ ~rewinds /\ gw.pointer < gw.length) =>
                  /\ out.status = "row"
                  /\ out.row = gw.data[gw.pointer + 1]
                  /\ data_gateway'.pointer = gw.pointer + 1
           /\ (delivers /\ ~rewinds /\ gw.pointer = gw.length) =>
                  /\ out.status = (IF out.op = "get_next" THEN "None"
                                   ELSE "StopIteration")
                  /\ data_gateway'.pointer = gw.pointer
                  /\ out.op = "next(stream)" => gens'[out.gen].state = "done"
           /\ (out.op = "next(stream)" /\ gen.state = "done") =>
                  /\ out.status = "StopIteration"
                  /\ gens' = gens
                  /\ data_gateway' = gw]_vars

\* C17 witness: a generator of stream has ended on a gateway that has
\* delivered all the rows of a file of MaxBars rows that was not sorted.
C17_Witness ==
    /\ last.op = "next(stream)"
    /\ last.status = "StopIteration"
    /\ data_gateway.length = MaxBars
    /\ data_gateway.pointer = data_gateway.length
    /\ feed.rows = data_gateway.data
    /\ feed.csv # data_gateway.data

\* C18: reset() and __iter__ put the pointer back to 0, and so does
\* stream(reset=True) when its generator is first advanced, wherever the
\* pointer was; the rows delivered after a rewind are again the rows of the
\* first pass, from the first one on, in the same order.
C18_Restartable ==
    [][LET out == last'
           gen == gens[out.gen]
       IN  /\ out.op \in {"reset", "__iter__"} =>
                  /\ data_gateway'.pointer = 0
                  /\ data_gateway'.data = data_gateway.data
           /\ (out.op = "next(stream)" /\ gen.state = "created" /\ gen.reset) =>
                  IF data_gateway.length = 0
                  THEN out.status = "StopIteration"
                  ELSE /\ out.status = "row"
                       /\ out.row = data_gateway.data[1]
                       /\ data_gateway'.pointer = 1
           /\ out.status = "row" =>
                  /\ out.row = sort_values(feed.csv)[Len(feed'.rows)]
                  /\ feed'.rows = SubSeq(sort_values(feed.csv), 1, Len(feed'.rows))]_vars

\* C18 witness: a gateway that has been rewound twice has delivered the whole
\* file again.
C18_Witness ==
    /\ feed.rewinds = 2
    /\ data_gateway.length = MaxBars
    /\ feed.rows = data_gateway.data
    /\ last.status = "row"


\* The rows of the rolling window of width w that ends at row t.
WindowRows(t, w) == {i \in 1..t : i > t - w}

RECURSIVE SumOver(_, _)
SumOver(close, rows) ==
    IF rows = {} THEN 0
    ELSE LET i == CHOOSE x \in rows : TRUE
         IN  close[i] + SumOver(close, rows \ {i})

\* MA_short[t] - MA_long[t], multiplied by the two window sizes: its sign is
\* the sign of the difference of the two averages.
Spread(st, close, t) ==
    SumOver(close, WindowRows(t, st.short_window))
            * Cardinality(WindowRows(t, st.long_window))
      - SumOver(close, WindowRows(t, st.long_window))
            * Cardinality(WindowRows(t, st.short_window))

\* The rows at which the short average crosses above, or below, the long one.
UpCrosses(st, close) ==
    {t \in 2..Len(close) : Spread(st, close, t - 1) <= 0 /\ Spread(st, close, t) > 0}

DownCrosses(st, close) ==
    {t \in 2..Len(close) : Spread(st, close, t - 1) >= 0 /\ Spread(st, close, t) < 0}

\* C19 as stated, second part: on a series whose short average crosses above
\* the long one exactly once, the only nonzero signal is the buy at the
\* crossing bar.
C19_SingleUpCrossOnlySignal ==
    ("signal" \in DOMAIN frame /\ Cardinality(UpCrosses(strategy, frame.Close)) = 1) =>
        /\ \A t \in UpCrosses(strategy, frame.Close) : frame.signal[t] = 1
        /\ \A t \in DOMAIN frame.signal :
               t \notin UpCrosses(strategy, frame.Close) => frame.signal[t] = 0

\* C19 amended: the signal at bar t is 1 iff the short average was at or below
\* the long one at t-1 and is above it at t, -1 iff it was at or above at t-1
\* and is below at t, and 0 otherwise (always 0 on the first bar); so on a
\* series whose short average crosses above the long one exactly once and
\* never crosses below it, the only nonzero signal is the buy at the crossing
\* bar.
C19_CrossoverSignals ==
    "signal" \in DOMAIN frame =>
        LET close == frame.Close
            up    == UpCrosses(strategy, close)
            down  == DownCrosses(strategy, close)
        IN  /\ DOMAIN frame.signal = 1..Len(close)
            /\ \A t \in 1..Len(close) :
                   /\ frame.signal[t] = 1 <=> t \in up
                   /\ frame.signal[t] = -1 <=> t \in down
                   /\ frame.signal[t] = 0 <=> t \notin (up \cup down)
            /\ (Cardinality(up) = 1 /\ down = {}) =>
                   \A t \in 1..Len(close) :
                       frame.signal[t] = (IF t \in up THEN 1 ELSE 0)

\* C19 witness: the strategy has run, with short_window > 1, on a series of
\* MaxSeries bars that crosses upward once, after the second bar, and never
\* downward.
C19_Witness ==
    /\ "signal" \in DOMAIN frame
    /\ strategy.short_window > 1
    /\ Len(frame.Close) = MaxSeries
    /\ Cardinality(UpCrosses(strategy, frame.Close)) = 1
    /\ DownCrosses(strategy, frame.Close) = {}
    /\ \E t \in 3..MaxSeries : frame.signal[t] = 1


\* C20: whenever Backtester.run calls strategy.run, the strategy's
\* current_position is the ledger's position, as a call of update_context with
\* that position just before would have left it.
C20_ContextInjectedBeforeRun ==
    [][last'.op = "tick" => strategy = update_context(strategy, bt.position)]_vars


\* C21: in every row of the frame a PennyInPennyOutStrategy returns, bid_active
\* holds exactly when the volatility is at most vol_halt and the position is
\* below 1.5 times the soft limit, and ask_active exactly when the volatility
\* is at most vol_halt and the position is above -1.5 times the soft limit; so
\* a position of at least 1.5 times the soft limit disables the bid, one of at
\* most -1.5 times the soft limit disables the ask, and a volatility above
\* vol_halt disables both.
C21_QuoteActivation ==
    "bid_active" \in DOMAIN frame =>
        \A t \in 1..Len(frame.Close) :
            LET calm == frame.volatility[t] <= strategy.vol_halt
                pos  == strategy.current_position
                soft == strategy.inventory_soft_limit
            IN  /\ frame.bid_active[t] <=> (calm /\ 2 * pos < 3 * soft)
                /\ frame.ask_active[t] <=> (calm /\ 2 * pos > -3 * soft)
                /\ 2 * pos >= 3 * soft => ~frame.bid_active[t]
                /\ 2 * pos <= -3 * soft => ~frame.ask_active[t]
                /\ ~calm => ~frame.bid_active[t] /\ ~frame.ask_active[t]

\* A position of exactly 1.5 times the soft limit in a calm row: the bid is
\* off and the ask still quotes.
C21_Witness ==
    /\ "bid_active" \in DOMAIN frame
    /\ 2 * strategy.current_position = 3 * strategy.inventory_soft_limit
    /\ \E t \in 1..Len(frame.Close) :
          /\ frame.volatility[t] = strategy.vol_halt
          /\ ~frame.bid_active[t]
          /\ frame.ask_active[t]


\* C22: when a strategy has run on a window shorter than its lookback, its
\* latest decision is neutral: the latest signal of a MovingAverageStrategy on
\* fewer than long_window rows is 0, and the latest quote of a
\* PennyInPennyOutStrategy on a single row, which is too short for any
\* volatility, has neither side active.
C22_ShortWindowIsNeutral ==
    (last.op = "run" /\ Len(frame.Close) >= 1) =>
        LET n == Len(frame.Close)
        IN  /\ ("short_window" \in DOMAIN strategy /\ n < strategy.long_window)
                  => frame.signal[n] = 0
            /\ ("tick_size" \in DOMAIN strategy /\ n < 2)
                  => ~frame.bid_active[n] /\ ~frame.ask_active[n]

\* C23: a constructor raises exactly on an invalid configuration
\* (short_window >= long_window, tick_size <= 0), a constructor that raised
\* leaves no strategy to run, and every strategy that exists or has run has a
\* valid configuration.
C23_InvalidConfigFailsAtConstruction ==
    LET valid == /\ "short_window" \in DOMAIN strategy
                    => strategy.short_window < strategy.long_window
                 /\ "tick_size" \in DOMAIN strategy
                    => strategy.tick_size > 0
    IN  /\ (last.op = "construct" /\ last.class = "MovingAverageStrategy")
              => (last.raised <=> last.args[1] >= last.args[2])
        /\ (last.op = "construct" /\ last.class = "PennyInPennyOutStrategy")
              => (last.raised <=> last.args[1] <= 0)
        /\ last.op = "construct" => (last.raised <=> pc = "failed")
        /\ pc = "failed" => (strategy = Strategy /\ "signal" \notin DOMAIN frame)
        /\ pc = "constructed" => valid
        /\ "signal" \in DOMAIN frame => (pc = "constructed" /\ valid)

\* Equal windows were given and the constructor raised.
C23_Witness ==
    /\ pc = "failed"
    /\ last.class = "MovingAverageStrategy"
    /\ last.args[1] = last.args[2]
    /\ last.raised


\* C24: Backtester.run returns, and only when the feed is exhausted: it
\* eventually returns; when it has returned every bar of the feed was read and
\* the equity curve has one entry per bar; the step that returns is taken with
\* no bar left; and every tick, whether it held, was rejected, cancelled or
\* filled, reads one bar and leaves the loop running.
C24_TerminatesOnlyOnExhaustion ==
    /\ <>(pc = "returned")
    /\ [](pc = "returned" =>
             /\ data_gateway.pointer = data_gateway.length
             /\ Len(bt.market_df) = data_gateway.length
             /\ Len(bt.equity_curve) = data_gateway.length)
    /\ [][(pc = "loop" /\ pc' = "returned") => ~has_next(data_gateway)]_vars
    /\ [][last'.op = "tick" =>
             /\ pc' = "loop"
             /\ data_gateway'.pointer = data_gateway.pointer + 1]_vars

\* run has returned after a rejected order and a cancelled fill.
C24_Witness ==
    /\ pc = "returned"
    /\ data_gateway.pointer = data_gateway.length
    /\ Len(order_book) > Len(bt.trades)
    /\ Len(bt.equity_curve) > Len(order_book)


\* C25: the identifiers of the orders a run has put in the order book are
\* pairwise distinct.
C25_OrderIdsDistinct ==
    \A i \in DOMAIN order_book : \A j \in DOMAIN order_book :
        i # j => order_book[i].order_id # order_book[j].order_id

\* C26: the trade log only grows at its end: every step keeps the records it
\* held, in their order, and a tick appends exactly one record
\* {timestamp, side, price, qty, status} when its execution is filled or
\* partial and none when it held, was rejected or was cancelled.
C26_TradeLogAppendOnly ==
    [][LET old == bt.trades
           new == bt'.trades
           applied == /\ last'.op = "tick"
                      /\ last'.verdict = "accepted"
                      /\ last'.result.status \in {"filled", "partial"}
       IN  /\ Len(new) >= Len(old)
           /\ \A k \in 1..Len(old) : new[k] = old[k]
           /\ Len(new) = Len(old) + (IF applied THEN 1 ELSE 0)
           /\ \A k \in 1..Len(new) :
                 DOMAIN new[k] = {"timestamp", "side", "price", "qty", "status"}]_vars

\* A cancelled execution after two recorded trades: the log stayed as it was.
C26_Witness ==
    /\ last.op = "tick"
    /\ last.verdict = "accepted"
    /\ last.result.status = "cancelled"
    /\ Len(bt.trades) >= 2

\* C27: the ledger's cash, position and trade log change only in a step that
\* settles a filled or partial execution; a hold tick, a rejected order and a
\* cancelled fill leave cash and position as they were; the equity curve
\* changes only by the tick's own entry, computed from the ledger as it was
\* before the tick; and every tick is complete when the next bar is read: the
\* bars read, the rows kept and the equity entries are equally many.
C27_LedgerChangesOnlyInSettle ==
    [][LET settle == /\ last'.op = "tick"
                     /\ last'.verdict = "accepted"
                     /\ last'.result.status \in {"filled", "partial"}
       IN  /\ (bt'.cash # bt.cash \/ bt'.position # bt.position
                  \/ bt'.trades # bt.trades) => settle
           /\ bt'.equity_curve # bt.equity_curve =>
                 /\ last'.op = "tick"
                 /\ bt'.equity_curve =
                       Append(bt.equity_curve,
                              bt.cash + bt.position * last'.price)
           /\ (last'.op = "tick" /\ ~settle) =>
                 bt'.cash = bt.cash /\ bt'.position = bt.position
           /\ data_gateway'.pointer # data_gateway.pointer =>
                 /\ data_gateway'.pointer = data_gateway.pointer + 1
                 /\ Len(bt.equity_curve) = data_gateway.pointer
                 /\ Len(bt'.equity_curve) = data_gateway'.pointer
                 /\ Len(bt'.market_df) = data_gateway'.pointer]_vars

\* A cancelled fill on a ledger that holds a position and has seen a rejection
\* or a hold: nothing was settled.
C27_Witness ==
    /\ last.op = "tick"
    /\ last.verdict = "accepted"
    /\ last.result.status = "cancelled"
    /\ bt.position # 0
    /\ bt.cash # InitialCash


\* C28: whenever the returns of the equity curve have variance zero, that is,
\* there is at least one return and all returns are equal, sharpe returns 0.
C28_ZeroVarianceGivesZero ==
    (last.op = "sharpe" /\ Len(returns(pa)) >= 1
        /\ \A i \in 1..Len(returns(pa)) : returns(pa)[i] = returns(pa)[1])
    => last.value.zero


\* C29: log holds a handle on the file only inside the call: whenever no call
\* is under way no handle is open, also after a call that raised, and never is
\* more than one open; a call that returns normally has appended exactly one
\* line, the event it was given; and no step alters or removes a line the file
\* already held.
C29_HandleScopedToWrite ==
    [][/\ pc' = "idle" => logger'.handles = 0
       /\ logger'.handles <= 1
       /\ (last'.op = "log" /\ last'.raised = "") =>
             /\ Len(logger'.file) = Len(logger.file) + 1
             /\ logger'.file[Len(logger'.file)] = logger.event
       /\ (last'.op = "log" /\ last'.raised # "") => logger'.file = logger.file
       /\ Len(logger'.file) >= Len(logger.file)
       /\ \A k \in 1..Len(logger.file) : logger'.file[k] = logger.file[k]]_vars

\* A call whose data json could not serialise has ended after a line was
\* logged: the handle it had opened is released and the file is as it was.
C29_Witness ==
    /\ last.op = "log"
    /\ last.raised = "TypeError"
    /\ pc = "idle"
    /\ logger.handles = 0
    /\ Len(logger.file) >= 1


\* C30: once trading_halted is set, the only orders sent are flattening
\* orders: a quote handled while trading is halted returns without an order
\* and without touching the trader's state, the handler that detects the loss
\* sends nothing but what flatten_all_symbols sends, and every order sent by a
\* step that starts or ends with trading halted was asked for by
\* flatten_symbol, for a symbol the halt has still to flatten.
C30_OnlyFlatteningAfterHalt ==
    [][/\ (trader.state.trading_halted /\ last'.op = "quote") =>
             /\ last'.sent = << >>
             /\ trader' = trader
       /\ (trader.state.trading_halted \/ trader'.state.trading_halted) =>
             \A k \in 1..Len(last'.sent) :
                /\ last'.sent[k].by = "flatten"
                /\ last'.op = "flatten"
                /\ trader.flattening # << >>
                /\ last'.sent[k].symbol = Head(trader.flattening)
       /\ last'.op = "flatten" => trader.state.trading_halted]_vars

\* A quote for a tracked symbol has been handled after the halt's flattening
\* was over: it returned at the halted check.
C30_Witness ==
    /\ last.op = "quote"
    /\ last.path = "halted"
    /\ last.symbol = "BTC/USD"
    /\ trader.state.trading_halted
    /\ trader.flattening = << >>
    /\ trader.state.symbols["ETH/USD"].last_trade_time > COOLDOWN_SECONDS


\* C31: a halt lasts for the day only: a quote for a tracked symbol that
\* arrives while trading is halted and the calendar day is later than the day
\* of the latest reset makes the handler reset the day (start_equity from the
\* current equity, last_reset_date the new day, trading_halted cleared before
\* the loss is looked at again), and the quote does not end at the halted
\* check.
C31_HaltLastsForTheDay ==
    [][(/\ last'.op = "quote"
        /\ last'.symbol \in DOMAIN trader.state.symbols
        /\ trader.state.trading_halted
        /\ trader.state.last_reset_date # trader.today) =>
          /\ last'.path # "halted"
          /\ trader'.state.last_reset_date = trader.today]_vars


\* C40: for every symbol, the recorded position_side is "long" only if the
\* latest order the broker accepted for the symbol was a buy and "short" only
\* if it was a sell, and a flip none of whose orders reached the broker leaves
\* the recorded side as it was.
C40_SideFollowsSubmittedOrder ==
    [][/\ \A sym \in DOMAIN trader'.state.symbols :
             /\ trader'.state.symbols[sym].position_side = "long"
                   => trader'.submitted[sym] = "buy"
             /\ trader'.state.symbols[sym].position_side = "short"
                   => trader'.submitted[sym] = "sell"
       /\ (last'.op = "quote" /\ last'.path = "flip" /\ last'.sent = << >>) =>
             trader'.state.symbols[last'.symbol].position_side =
                 trader.state.symbols[last'.symbol].position_side]_vars


\* C32: a cycle that reads a position beyond the hard limit of 100 calls
\* cancel_open_orders and places no quote, and after a cycle that placed a
\* quote the only orders of the symbol working at the broker are the ones
\* that cycle placed: no order of an earlier cycle works next to them.
C32_NoStaleQuotesNextToNew ==
    [][(last'.op = "cycle" /\ last'.path # "error") =>
          /\ abs(mm'.position) > max_position_risk =>
                (last'.cancel_called /\ last'.placed = {})
          /\ last'.cancel_called
          /\ last'.placed # {} => mm'.working = last'.placed]_vars


RECURSIVE SignedQty(_)
SignedQty(entries) ==
    IF entries = << >> THEN 0
    ELSE (IF Head(entries).side = "buy" THEN Head(entries).qty
          ELSE -Head(entries).qty) + SignedQty(Tail(entries))

\* C34: after every tick OrderManager.current_position - Backtester.position
\* is the signed sum of the unfilled quantities of the orders accepted so far
\* (the tick's accepted order adds qty - filled_qty, signed by its side, and
\* nothing else changes the difference), so the two positions are equal as
\* long as every accepted order was filled in full.
C34_PositionGapIsUnfilledQty ==
    [][last'.op = "tick" =>
        LET gap      == order_manager.current_position - bt.position
            gap_next == order_manager'.current_position - bt'.position
            rest     == last'.order.qty - last'.result.filled_qty
            unfilled == IF last'.verdict # "accepted" THEN 0
                        ELSE IF last'.order.side = "buy" THEN rest ELSE -rest
        IN  /\ gap_next = gap + unfilled
            /\ gap_next = SignedQty(order_book') - SignedQty(bt'.trades)
            /\ (/\ Len(bt'.trades) = Len(order_book')
                /\ \A i \in 1..Len(bt'.trades) : bt'.trades[i].status = "filled")
                  => order_manager'.current_position = bt'.position]_vars

\* Orders of both sides were accepted, one was filled in part and one was
\* cancelled, and the two positions differ.
C34_Witness ==
    /\ last.op = "tick"
    /\ last.verdict = "accepted"
    /\ Len(order_book) >= 2
    /\ \E i, j \in 1..Len(order_book) : order_book[i].side # order_book[j].side
    /\ \E i \in 1..Len(bt.trades) : bt.trades[i].status = "partial"
    /\ Len(bt.trades) < Len(order_book)
    /\ order_manager.current_position # bt.position


\* C35: over any sequence of validate calls with positive prices and
\* quantities, OrderManager.capital is never negative and never increases:
\* an accepted buy lowers it by price * qty, an accepted sell and a rejection
\* leave it as it was, so capital spent on buys is not restored by sells.
C35_CapitalOnlyFalls ==
    [][last'.op = "validate" =>
        LET o == last'.order
        IN  /\ o.price > 0 /\ o.qty > 0
            /\ order_manager.capital >= 0
            /\ order_manager'.capital >= 0
            /\ order_manager'.capital <= order_manager.capital
            /\ IF last'.verdict = "accepted" /\ o.side = "buy"
               THEN order_manager'.capital =
                        order_manager.capital - o.price * o.qty
               ELSE order_manager'.capital = order_manager.capital]_vars

\* A sell was accepted after buys had taken capital, and the capital is
\* still what the buys left.
C35_Witness ==
    /\ last.op = "validate"
    /\ last.verdict = "accepted"
    /\ last.order.side = "sell"
    /\ order_manager.capital < Capital
    /\ order_manager.capital >= 0
    /\ order_manager.current_position < 0


\* C36: with positive prices and a RiskGate whose initial capital is at most
\* the ledger's initial cash of 100000, the ledger's cash is never negative,
\* whatever the signals and the fills: the cash spent so far is at most the
\* capital the RiskGate has given out.
C36_CashNeverNegative ==
    (/\ \A i \in 1..Len(bt.market_df) : bt.market_df[i] > 0
     /\ \A c \in GateCapitals : c <= InitialCash) =>
        bt.cash >= 0

\* A full fill has used up all of the ledger's cash, and a later buy was
\* turned down for lack of capital.
C36_Witness ==
    /\ last.op = "tick"
    /\ last.verdict = "rejected"
    /\ last.msg = "Not enough capital"
    /\ order_manager.capital = 0
    /\ \E i \in 1..Len(bt.equity_curve) : bt.equity_curve[i] # InitialCash
    /\ \E i \in 1..Len(bt.trades) :
          bt.trades[i].side = "buy" /\ bt.trades[i].price * bt.trades[i].qty = InitialCash


\* The rows handed to one consumer since the gateway was made.
Received(f, taker) == {f.rows[k] : k \in {j \in DOMAIN f.rows : f.takers[j] = taker}}

\* C37: with no reset in between, the gateway hands out each bar at most
\* once across all its consumers, which advance one pointer: the rows
\* delivered so far, to whomever, are the first pointer bars in order, two
\* consumers (two generators of stream() among them) never hold the same
\* bar, the Backtester holds exactly the bars its run took, and on an
\* exhausted gateway no step, a second Backtester.run() included, consumes a
\* bar or changes the equity curve or the trade log.
C37_EachBarOnceAcrossConsumers ==
    [][/\ feed'.rows = SubSeq(data_gateway.data, 1, data_gateway'.pointer)
       /\ \A j, k \in DOMAIN feed'.rows : j # k => feed'.rows[j] # feed'.rows[k]
       /\ \A j, k \in DOMAIN feed'.takers :
             feed'.takers[j] # feed'.takers[k] =>
                Received(feed', feed'.takers[j]) \cap Received(feed', feed'.takers[k]) = {}
       /\ bt'.market_df = SelectSeq(feed'.rows,
                              LAMBDA row : row \in Received(feed', Taker("run", 0)))
       /\ data_gateway'.pointer \in {data_gateway.pointer, data_gateway.pointer + 1}
       /\ ~has_next(data_gateway) =>
             /\ data_gateway'.pointer = data_gateway.pointer
             /\ feed' = feed
             /\ bt'.equity_curve = bt.equity_curve
             /\ bt'.trades = bt.trades
             /\ bt'.market_df = bt.market_df]_vars

\* Two generators and the Backtester have each been handed a bar, the feed
\* is exhausted, run has returned and has been called again.
C37_Witness ==
    /\ last.op = "run"
    /\ pc = "loop"
    /\ ~has_next(data_gateway)
    /\ Len(gens) = 2
    /\ Received(feed, Taker("stream", 1)) # {}
    /\ Received(feed, Taker("stream", 2)) # {}
    /\ Len(bt.market_df) = 1
    /\ Len(bt.trades) = 1


\* C38: on the closes read so far MovingAverageStrategy gives signal 0 on
\* each of the first short_window rows, where the two rolling means are the
\* same number, and so a tick among the first short_window of a run creates
\* no order: the order book and the trade log stay as they were.
C38_NoSignalDuringWarmUp ==
    [][last'.op = "tick" =>
        LET close == bt'.market_df
            df    == run(strategy, close)
            t_now == Len(close)
        IN  /\ \A t \in 1..t_now :
                  t <= strategy.short_window =>
                     /\ df.MA_short[t] = df.MA_long[t]
                     /\ df.signal[t] = 0
            /\ t_now <= strategy.short_window =>
                  /\ last'.signal = 0
                  /\ last'.order = NoOrder
                  /\ order_book' = order_book
                  /\ bt'.trades = bt.trades
                  /\ order_manager' = order_manager]_vars

\* The second tick of a run with short_window = 2 held although the close
\* had moved, and the third tick, past the warm-up, placed an order.
C38_Witness ==
    /\ strategy.short_window = 2
    /\ last.op = "tick"
    /\ Len(bt.market_df) = 3
    /\ bt.market_df[1] # bt.market_df[2]
    /\ last.signal # 0
    /\ Len(order_book) = 1


\* C39: in every row a PennyInPennyOutStrategy produces, whatever the
\* inventory and the volatility, when tick_size is at most
\* min(max_spread / 2, max_quote_offset) the clamped edge is at least one
\* tick and ask_price - bid_price is at least 3 ticks after the rounding, so
\* the quote is neither crossed nor locked, and AlpacaMarketMaker.run's test
\* ask_price <= bid_price leaves the ask side as the strategy set it.
C39_AskAboveBid ==
    ("bid_price" \in DOMAIN frame
        /\ 2 * strategy.tick_size <= strategy.max_spread
        /\ strategy.tick_size <= strategy.max_quote_offset) =>
       \A t \in 1..Len(frame.Close) :
          /\ frame.edge[t] >= strategy.tick_size
          /\ frame.ask_price[t] - frame.bid_price[t] >= 3 * strategy.tick_size
          /\ frame.ask_price[t] > frame.bid_price[t]
          /\ LET latest == [bid_price  |-> frame.bid_price[t],
                            ask_price  |-> frame.ask_price[t],
                            bid_qty    |-> frame.bid_qty[t],
                            ask_qty    |-> frame.ask_qty[t],
                            bid_active |-> frame.bid_active[t],
                            ask_active |-> frame.ask_active[t]]
             IN  validate_quote(latest).ask_active = frame.ask_active[t]

\* A row whose edge was raised to one tick of 4 units, with a short
\* inventory, both sides quoting, and bid and ask exactly 3 ticks apart.
C39_Witness ==
    /\ "bid_price" \in DOMAIN frame
    /\ strategy.tick_size = 4
    /\ strategy.tick_size <= strategy.max_quote_offset
    /\ 2 * strategy.tick_size <= strategy.max_spread
    /\ strategy.current_position < 0
    /\ frame.edge[1] = strategy.tick_size
    /\ frame.bid_active[1] /\ frame.ask_active[1]
    /\ frame.ask_price[1] - frame.bid_price[1] = 3 * strategy.tick_size
    /\ frame.bid_qty[1] > frame.ask_qty[1]

=============================================================================
